---- MODULE Spec2Model ----
(***************************************************************************)
(* Model of the two-party aggregated-signing service (src/mpc), its        *)
(* protocol codec (src/mpc/src/serialization.rs), the transaction builder  *)
(* (src/mpc/src/native_token.rs) and the store (src/store): users,        *)
(* keyshares, and the ledger of transactions and balances.                 *)
(*                                                                         *)
(* Byte buffers are sequences of numbers 0..255 with the widths of the     *)
(* source.  Curve points and scalars are elements of a small prime-order   *)
(* group: a point is written as its discrete logarithm, so that point      *)
(* addition and scalar multiplication are arithmetic modulo GroupOrder.    *)
(***************************************************************************)
EXTENDS Integers, Sequences, FiniteSets, TLC

VARIABLES
    lib,      \* how the curve library's Point::from_bytes treats a slice longer than a point
    codec,    \* the codec operation last applied: its message, buffer and result
    last,     \* the HTTP call last served by the signing service: handler, request facts, outcome
    round1,   \* history: the (commitment, secret bundle) pairs generated by step_one
    round2,   \* history: the Round-2 computations that produced a partial signature
    rpc,      \* the chain RPC client: the transactions handed to send_and_confirm_transaction
    users,    \* store: rows of table users
    keyshares, \* store: rows of table mpc_keyshares
    store_last, \* store: the operation last run and its result
    built,    \* the transaction builder: the arguments and result of its last call
    transactions,   \* store: rows of table transactions, by id
    balance,        \* store: column balance of table users, by user id
    token_balances, \* store: column balance of table token_balances, by (user_id, token_mint)
    calls     \* store: the ledger call in progress on each pool connection

vars ==
    <<lib, codec, last, round1, round2, rpc, users, keyshares, store_last, built,
      transactions, balance, token_balances, calls>>

\* The state of the signing service's callers, and of the store.
mpcVars == <<last, round1, round2, rpc>>

\* The committed rows of the ledger tables.
dbVars == <<transactions, balance, token_balances>>

ledgerVars == <<dbVars, calls>>

storeVars == <<users, keyshares, store_last, ledgerVars>>

-----------------------------------------------------------------------------
(* Widths and offsets of the codec.                                         *)

\* Order of the (scaled-down) prime-order group standing for Ed25519.
GroupOrder == 251
\* Pubkey::to_bytes(): 32 bytes.
PubkeyLen == 32
\* Point<Ed25519>::to_bytes(true): the compressed encoding, 32 bytes.
PointLen == 32
\* Scalar<Ed25519>::to_bytes(): 32 bytes.
ScalarLen == 32
\* Signature: 64 bytes (R then s).
SigLen == 64
\* The width of every point slice the decoders read (buffer[32..65], [65..98], ...).
PointSliceLen == 33
\* AggMessage1::deserialize's guard: buffer.len() < 32 + 64.
AggMessage1Guard == 96
\* SecretAggStepOne::deserialize's guard: buffer.len() < 128.
SecretAggStepOneGuard == 128
\* PartialSignature::deserialize's guard: buffer.len() < 64.
PartialSignatureGuard == 64

\* Longest buffer tried beyond the longest slice end (130).
MaxExtra == 1

Byte == 0..255

Scalars == 0..(GroupOrder - 1)

Points == 0..(GroupOrder - 1)

Zeros(n) == [i \in 1..n |-> 0]

\* Rust's buffer[a..b] for b <= len (the caller checks the panic condition).
Slice(buffer, a, b) == SubSeq(buffer, a + 1, b)

\* buffer[a..b] panics when b > buffer.len().
SliceInRange(buffer, b) == b <= Len(buffer)

Ok(v) == [tag |-> "Ok", val |-> v]

Err(e) == [tag |-> "Err", err |-> e]

Panic == [tag |-> "Panic"]

NoResult == [tag |-> "None"]

-----------------------------------------------------------------------------
(* The curve library's encodings (external primitive).                      *)

\* A canonical field encoding: little-endian value below the group order.
Canonical(bytes, n) ==
    /\ Len(bytes) = n
    /\ bytes[1] < GroupOrder
    /\ \A i \in 2..n : bytes[i] = 0

PointToBytes(p) == <<p>> \o Zeros(PointLen - 1)

ScalarToBytes(k) == <<k>> \o Zeros(ScalarLen - 1)

\* Point::from_bytes.  A slice of exactly PointLen bytes decodes iff it is a
\* valid encoding.  For a longer slice the library either decodes its first
\* PointLen bytes (lib = "first32") or rejects it (lib = "reject").
PointFromBytes(l, bytes) ==
    IF Len(bytes) = PointLen
    THEN IF Canonical(bytes, PointLen) THEN Ok(bytes[1]) ELSE Err("InvalidPoint")
    ELSE IF Len(bytes) > PointLen /\ l = "first32"
         THEN IF Canonical(SubSeq(bytes, 1, PointLen), PointLen)
              THEN Ok(bytes[1]) ELSE Err("InvalidPoint")
         ELSE Err("InvalidPoint")

ScalarFromBytes(bytes) ==
    IF Canonical(bytes, ScalarLen) THEN Ok(bytes[1]) ELSE Err("InvalidScalar")

-----------------------------------------------------------------------------
(* serialization.rs                                                         *)

\* AggMessage1::serialize: sender, then each R in compressed form.
SerializeAggMessage1(m) ==
    m.sender \o PointToBytes(m.R[1]) \o PointToBytes(m.R[2])

\* AggMessage1::deserialize
DeserializeAggMessage1(l, buffer) ==
    IF Len(buffer) < AggMessage1Guard THEN Err("BufferTooShort")
    ELSE LET sender == Slice(buffer, 0, PubkeyLen)
             e1 == PubkeyLen + PointSliceLen
             e2 == e1 + PointSliceLen
             r1 == PointFromBytes(l, Slice(buffer, PubkeyLen, e1))
             r2 == PointFromBytes(l, Slice(buffer, e1, e2))
         IN  IF ~SliceInRange(buffer, e1) THEN Panic
             ELSE IF r1.tag = "Err" THEN r1
             ELSE IF ~SliceInRange(buffer, e2) THEN Panic
             ELSE IF r2.tag = "Err" THEN r2
             ELSE Ok([sender |-> sender, R |-> <<r1.val, r2.val>>])

\* SecretAggStepOne::serialize: private nonces, then public nonces.
SerializeSecretAggStepOne(s) ==
    ScalarToBytes(s.k[1]) \o ScalarToBytes(s.k[2])
        \o PointToBytes(s.R[1]) \o PointToBytes(s.R[2])

\* SecretAggStepOne::deserialize
DeserializeSecretAggStepOne(l, buffer) ==
    IF Len(buffer) < SecretAggStepOneGuard THEN Err("BufferTooShort")
    ELSE LET s1 == ScalarLen
             s2 == s1 + ScalarLen
             e1 == s2 + PointSliceLen
             e2 == e1 + PointSliceLen
             k1 == ScalarFromBytes(Slice(buffer, 0, s1))
             k2 == ScalarFromBytes(Slice(buffer, s1, s2))
             r1 == PointFromBytes(l, Slice(buffer, s2, e1))
             r2 == PointFromBytes(l, Slice(buffer, e1, e2))
         IN  IF k1.tag = "Err" THEN k1
             ELSE IF k2.tag = "Err" THEN k2
             ELSE IF ~SliceInRange(buffer, e1) THEN Panic
             ELSE IF r1.tag = "Err" THEN r1
             ELSE IF ~SliceInRange(buffer, e2) THEN Panic
             ELSE IF r2.tag = "Err" THEN r2
             ELSE Ok([k |-> <<k1.val, k2.val>>, R |-> <<r1.val, r2.val>>])

\* PartialSignature::serialize: the 64 signature bytes.
SerializePartialSignature(p) == p

\* PartialSignature::deserialize
DeserializePartialSignature(buffer) ==
    IF Len(buffer) < PartialSignatureGuard THEN Err("BufferTooShort")
    ELSE Ok(Slice(buffer, 0, SigLen))

Kinds == {"AggMessage1", "SecretAggStepOne", "PartialSignature"}

Serialize(kind, m) ==
    CASE kind = "AggMessage1" -> SerializeAggMessage1(m)
      [] kind = "SecretAggStepOne" -> SerializeSecretAggStepOne(m)
      [] kind = "PartialSignature" -> SerializePartialSignature(m)

Deserialize(kind, l, buffer) ==
    CASE kind = "AggMessage1" -> DeserializeAggMessage1(l, buffer)
      [] kind = "SecretAggStepOne" -> DeserializeSecretAggStepOne(l, buffer)
      [] kind = "PartialSignature" -> DeserializePartialSignature(buffer)

-----------------------------------------------------------------------------
(* Participants.                                                            *)

Signers == {"A", "B", "C"}

\* Keypair: the private scalar of each signer; the public point is secret * G.
Secret(s) == CASE s = "A" -> 3 [] s = "B" -> 5 [] s = "C" -> 6

\* keypair.pubkey() as a point.
PublicPoint(s) == Secret(s)

\* Pubkey bytes of a signer (Pubkey::to_bytes of keypair.pubkey()).
PubkeyOf(s) == PointToBytes(PublicPoint(s))

-----------------------------------------------------------------------------
(* Codec operations applied to messages and to buffers of every length.     *)

\* Nonce values the codec is exercised with.
CodecNonces == {1, 2}

CodecMessages(kind) ==
    CASE kind = "AggMessage1" ->
            {[sender |-> PubkeyOf(s), R |-> <<r1, r2>>] :
                s \in {"A", "B"}, r1 \in CodecNonces, r2 \in CodecNonces}
      [] kind = "SecretAggStepOne" ->
            {[k |-> <<k1, k2>>, R |-> <<k1, k2>>] :
                k1 \in CodecNonces, k2 \in CodecNonces}
      [] kind = "PartialSignature" ->
            {PointToBytes(r) \o ScalarToBytes(s) :
                r \in CodecNonces, s \in CodecNonces}

\* The end of the last slice the decoder of each kind reads.
NeededLen(kind) ==
    CASE kind = "AggMessage1" -> PubkeyLen + PointSliceLen + PointSliceLen
      [] kind = "SecretAggStepOne" ->
            ScalarLen + ScalarLen + PointSliceLen + PointSliceLen
      [] kind = "PartialSignature" -> SigLen

GuardLen(kind) ==
    CASE kind = "AggMessage1" -> AggMessage1Guard
      [] kind = "SecretAggStepOne" -> SecretAggStepOneGuard
      [] kind = "PartialSignature" -> PartialSignatureGuard

\* The first n bytes of bytes, padded with fill when bytes is shorter.
Resize(bytes, n, fill) ==
    [i \in 1..n |-> IF i <= Len(bytes) THEN bytes[i] ELSE fill]

CodecLengths == 0..(SecretAggStepOneGuard + 2 + MaxExtra)

\* Where the encoder of each kind puts its point and scalar fields.
WrittenFields(kind) ==
    CASE kind = "AggMessage1" -> {PubkeyLen, PubkeyLen + PointLen}
      [] kind = "SecretAggStepOne" ->
            {0, ScalarLen, ScalarLen + ScalarLen,
             ScalarLen + ScalarLen + PointLen}
      [] kind = "PartialSignature" -> {}

\* The slices the decoder of each kind hands to the curve library.
ReadFields(kind) ==
    CASE kind = "AggMessage1" ->
            {[from |-> PubkeyLen, to |-> PubkeyLen + PointSliceLen,
              type |-> "point"],
             [from |-> PubkeyLen + PointSliceLen,
              to |-> PubkeyLen + PointSliceLen + PointSliceLen,
              type |-> "point"]}
      [] kind = "SecretAggStepOne" ->
            {[from |-> 0, to |-> ScalarLen, type |-> "scalar"],
             [from |-> ScalarLen, to |-> ScalarLen + ScalarLen,
              type |-> "scalar"],
             [from |-> ScalarLen + ScalarLen,
              to |-> ScalarLen + ScalarLen + PointSliceLen, type |-> "point"],
             [from |-> ScalarLen + ScalarLen + PointSliceLen,
              to |-> ScalarLen + ScalarLen + PointSliceLen + PointSliceLen,
              type |-> "point"]}
      [] kind = "PartialSignature" -> {}

\* bytes with the byte at offset at made non-canonical.
Corrupt(bytes, at) ==
    [i \in 1..Len(bytes) |-> IF i = at + 1 THEN 255 ELSE bytes[i]]

CodecBuffers(kind) ==
    {Resize(Serialize(kind, m), n, fill) :
        m \in CodecMessages(kind), n \in CodecLengths, fill \in {0, 255}}
    \cup {Corrupt(Resize(Serialize(kind, m), n, 0), at) :
             m \in CodecMessages(kind),
             n \in {GuardLen(kind), NeededLen(kind)},
             at \in WrittenFields(kind)}

CodecInit ==
    codec = [op |-> "none", kind |-> "none", msg |-> <<>>, buf |-> <<>>,
             res |-> NoResult]

\* message.serialize(&mut buffer) on an empty buffer.
CodecSerialize ==
    /\ \E kind \in Kinds : \E m \in CodecMessages(kind) :
          codec' = [op |-> "serialize", kind |-> kind, msg |-> m,
                    buf |-> Serialize(kind, m), res |-> NoResult]
    /\ UNCHANGED <<lib, built, mpcVars, storeVars>>

\* T::deserialize(&buffer) on an arbitrary buffer.  A decode depends on its
\* buffer alone, so one arbitrary buffer is not followed directly by another.
CodecDeserialize ==
    /\ codec.op # "deserialize"
    /\ \E kind \in Kinds : \E b \in CodecBuffers(kind) :
          codec' = [op |-> "deserialize", kind |-> kind, msg |-> <<>>,
                    buf |-> b, res |-> Deserialize(kind, lib, b)]
    /\ UNCHANGED <<lib, built, mpcVars, storeVars>>

\* T::deserialize(&buffer) on the buffer serialize just produced.
CodecRoundTrip ==
    /\ codec.op = "serialize"
    /\ codec' = [codec EXCEPT !.op = "roundtrip",
                              !.res = Deserialize(codec.kind, lib, codec.buf)]
    /\ UNCHANGED <<lib, built, mpcVars, storeVars>>

LibChoices == {"first32", "reject"}

-----------------------------------------------------------------------------
(* native_token.rs: the transaction every participant signs.                *)

None == "None"

\* 1 SOL in lamports.  Amounts are in tenths of SOL (15 is 1.5 SOL).
LamportsPerSol == 1000000000

LamportsPerTenth == LamportsPerSol \div 10

\* sol_to_lamports: (sol * 1_000_000_000.0) as u64.  The cast sends a negative
\* value to 0; the amounts of the model stay far below the u64 range.
sol_to_lamports(amount) ==
    IF amount < 0 THEN 0 ELSE amount * LamportsPerTenth

\* A builder that forgets the memo instruction.
create_unsigned_transaction_no_memo(amount, to, memo, from) ==
    [payer |-> from,
     instructions |->
        <<[program |-> "system", from |-> from, to |-> to,
           lamports |-> sol_to_lamports(amount)]>>,
     recent_blockhash |-> None,
     signatures |-> <<>>]

\* A builder that always emits a memo instruction, empty when there is no
\* memo.
create_unsigned_transaction_placeholder(amount, to, memo, from) ==
    [payer |-> from,
     instructions |->
        <<[program |-> "system", from |-> from, to |-> to,
           lamports |-> sol_to_lamports(amount)],
          [program |-> "memo", data |-> IF memo = None THEN "" ELSE memo]>>,
     recent_blockhash |-> None,
     signatures |-> <<>>]

\* create_unsigned_transaction: the transfer, then the memo when there is one.
create_unsigned_transaction(amount, to, memo, from) ==
    [payer |-> from,
     instructions |->
        <<[program |-> "system", from |-> from, to |-> to,
           lamports |-> sol_to_lamports(amount)]>>
        \o (IF memo = None THEN <<>>
            ELSE <<[program |-> "memo", data |-> memo]>>),
     recent_blockhash |-> None,
     signatures |-> <<>>]

\* The memo of a request as the JSON body carries it: the field left out, the
\* field set to null, or a text (the empty text included).
MemoFields == {"absent", "null", "", "memo"}

\* serde's Option<String>: a missing field and null are both None.
ParseMemo(field) == IF field \in {"absent", "null"} THEN None ELSE field

\* Amounts the builder is exercised with, in tenths of SOL.
BuilderAmounts == {-10, 0, 10, 15}

NoBuild == [op |-> "none"]

\* create_unsigned_transaction(amount, &to, memo, &from)
CreateUnsignedTransaction ==
    /\ \E amount \in BuilderAmounts, to \in {"D", "E"}, memo \in MemoFields,
          s \in Signers :
          built' = [op |-> "built", amount |-> amount, to |-> to,
                    memo |-> memo, from |-> PubkeyOf(s),
                    tx |-> create_unsigned_transaction(
                              amount, to, ParseMemo(memo), PubkeyOf(s))]
    /\ UNCHANGED <<lib, codec, last, round1, round2, rpc, storeVars>>

-----------------------------------------------------------------------------
(* Request parameters of the signing service.                               *)

Amounts == <<10, 15>>

Destinations == <<"D", "E">>

Memos == <<None, "memo">>

BlockHashes == <<"B1", "B2">>

Range(seq) == {seq[i] : i \in 1..Len(seq)}

IndexOf(seq, x) == CHOOSE i \in 1..Len(seq) : seq[i] = x

TxParams ==
    [amount : Range(Amounts), to : Range(Destinations), memo : Range(Memos),
     blockhash : Range(BlockHashes)]

-----------------------------------------------------------------------------
(* Hash functions of the signature scheme, idealised: Digest numbers the    *)
(* messages of the bounded universe injectively, so distinct messages have  *)
(* distinct challenges for a fixed nonce point and key.                     *)

Digest(tx) ==
    LET t == tx.instructions[1]
        a == IndexOf(Amounts, t.lamports \div LamportsPerTenth) - 1
        d == IndexOf(Destinations, t.to) - 1
        m == IF Len(tx.instructions) = 1 THEN 0 ELSE 1
        h == IndexOf(BlockHashes, tx.recent_blockhash) - 1
    IN  a + Len(Amounts) * (d + Len(Destinations) * (m + 2 * h))

Mod(x) == x % GroupOrder

\* The key-aggregation coefficient of key x within the key set keyset.
HashAgg(keyset, x) ==
    LET RECURSIVE Sum(_)
        Sum(S) == IF S = {} THEN 0
                  ELSE LET e == CHOOSE e \in S : TRUE IN e + Sum(S \ {e})
    IN  Mod(1 + x + Sum(keyset))

\* The nonce binding factor b.
HashNonce(K, r1, r2, tx) == Mod(1 + Digest(tx) + K + r1 + 2 * r2)

\* The signature challenge c = H(R, K, message).
HashSig(R, K, tx) == Mod(Digest(tx) + R + 3 * K)

-----------------------------------------------------------------------------
(* tss: key aggregation, the two rounds and the combiner.                   *)

\* Option<Pubkey>::None.
NoKey == <<>>

RECURSIVE SumSeq(_)
SumSeq(seq) == IF seq = <<>> THEN 0 ELSE Head(seq) + SumSeq(Tail(seq))

\* key_agg(keys, key): the aggregated key and every key's coefficient.
\* keys is a list of Pubkey bytes; primary is Pubkey bytes or NoKey.
key_agg(keys, primary) ==
    LET pts == [i \in 1..Len(keys) |-> PointFromBytes("reject", keys[i])]
        prim == IF primary = NoKey THEN Ok(GroupOrder)
                ELSE PointFromBytes("reject", primary)
    IN  IF (\E i \in 1..Len(keys) : pts[i].tag = "Err") \/ prim.tag = "Err"
        THEN Err("InvalidKey")
        ELSE LET xs == [i \in 1..Len(keys) |-> pts[i].val]
                 keyset == Range(xs)
                 coeff == [x \in keyset |->
                              IF x = prim.val THEN 1 ELSE HashAgg(keyset, x)]
                 agg == Mod(SumSeq([i \in 1..Len(xs) |-> coeff[xs[i]] * xs[i]]))
             IN  Ok([agg_public_key |-> agg, coeff |-> coeff])

\* step_one(keypair) with the two nonces the random source returned.
step_one(signer, k1, k2) ==
    [message1 |-> [sender |-> PubkeyOf(signer), R |-> <<Mod(k1), Mod(k2)>>],
     secret_state |-> [k |-> <<k1, k2>>, R |-> <<Mod(k1), Mod(k2)>>]]

\* The transaction message of a request: built over the aggregated key as
\* fee payer, with the recent blockhash set.
TxMessage(p, K) ==
    [create_unsigned_transaction(p.amount, p.to, p.memo, PointToBytes(K))
        EXCEPT !.recent_blockhash = p.blockhash]

\* step_two(keypair, amount, to, memo, recent_block_hash, keys,
\*          first_messages, secret_state)
step_two(signer, p, keys, first_messages, secret_state) ==
    LET me == PubkeyOf(signer)
        peers == Range(keys) \ {me}
        senders == [i \in 1..Len(first_messages) |-> first_messages[i].sender]
        agg == key_agg(keys, NoKey)
    IN  IF me \notin Range(keys) THEN Err("KeyPairIsNotInKeys")
        ELSE IF \/ Len(first_messages) # Len(keys) - 1
                \/ Range(senders) # peers
                \/ Cardinality(Range(senders)) # Len(senders)
        THEN Err("MismatchMessages")
        ELSE IF agg.tag = "Err" THEN agg
        ELSE LET K == agg.val.agg_public_key
                 tx == TxMessage(p, K)
                 r1 == Mod(secret_state.R[1]
                         + SumSeq([i \in 1..Len(first_messages) |->
                                      first_messages[i].R[1]]))
                 r2 == Mod(secret_state.R[2]
                         + SumSeq([i \in 1..Len(first_messages) |->
                                      first_messages[i].R[2]]))
                 b == HashNonce(K, r1, r2, tx)
                 R == Mod(r1 + b * r2)
                 c == HashSig(R, K, tx)
                 a == agg.val.coeff[PublicPoint(signer)]
                 sig == Mod(secret_state.k[1] + b * secret_state.k[2]
                            + c * a * Secret(signer))
             IN  Ok(PointToBytes(R) \o ScalarToBytes(sig))

\* Ed25519 verification of a 64-byte signature under key K: s*G = R + c*K.
VerifySignature(K, tx, sig) ==
    LET R == PointFromBytes("reject", Slice(sig, 0, PointLen))
        sc == ScalarFromBytes(Slice(sig, PointLen, SigLen))
    IN  /\ R.tag = "Ok"
        /\ sc.tag = "Ok"
        /\ sc.val = Mod(R.val + HashSig(R.val, K, tx) * K)

\* sign_and_broadcast(amount, to, memo, recent_block_hash, keys, signatures):
\* combine the partial signatures and verify the result.
sign_and_broadcast(p, keys, signatures) ==
    LET agg == key_agg(keys, NoKey)
        R == PointFromBytes("reject", Slice(signatures[1], 0, PointLen))
        ss == [i \in 1..Len(signatures) |->
                  ScalarFromBytes(Slice(signatures[i], PointLen, SigLen))]
    IN  IF agg.tag = "Err" THEN agg
        ELSE IF Len(signatures) # Len(keys) \/ Len(signatures) = 0
        THEN Err("MismatchMessages")
        ELSE IF R.tag = "Err" THEN R
        ELSE IF \E i \in 1..Len(ss) : ss[i].tag = "Err" THEN Err("InvalidScalar")
        ELSE LET K == agg.val.agg_public_key
                 tx == TxMessage(p, K)
                 s == Mod(SumSeq([i \in 1..Len(ss) |-> ss[i].val]))
                 full == PointToBytes(R.val) \o ScalarToBytes(s)
             IN  IF VerifySignature(K, tx, full)
                 THEN Ok([tx EXCEPT !.signatures = <<full>>])
                 ELSE Err("InvalidSignature")

-----------------------------------------------------------------------------
(* main.rs: request parsing shared by the handlers.                         *)

\* A base64 request field: text that decodes to bytes, or text that does not.
B64(bytes) == [ok |-> TRUE, bytes |-> bytes]

BadB64 == [ok |-> FALSE, bytes |-> <<>>]

\* base64::encode
base64_encode(bytes) == B64(bytes)

\* bs58::decode(&req.private_key) and Keypair::from_bytes.
ParseKeypair(private_key) ==
    IF private_key = "bad58" THEN Err("Invalid private key")
    ELSE IF private_key = "badkeypair" THEN Err("Invalid keypair")
    ELSE Ok(private_key)

\* Bytes of a well-formed public key that is not a curve point.
OffCurve == <<255>> \o Zeros(PubkeyLen - 1)

\* Pubkey::from_str
PubkeyFromStr(name) ==
    IF name = "bad" THEN Err("Invalid public key")
    ELSE IF name = "offcurve" THEN Ok(OffCurve)
    ELSE Ok(PubkeyOf(name))

\* The first element of a sequence of results that is not Ok, or Ok of the values.
Collect(results) ==
    IF \E i \in 1..Len(results) : results[i].tag # "Ok"
    THEN results[CHOOSE i \in 1..Len(results) :
                    /\ results[i].tag # "Ok"
                    /\ \A j \in 1..(i - 1) : results[j].tag = "Ok"]
    ELSE Ok([i \in 1..Len(results) |-> results[i].val])

\* base64::decode, then T::deserialize.
DecodeField(kind, l, field) ==
    IF ~field.ok THEN Err("Base64 decode error")
    ELSE Deserialize(kind, l, field.bytes)

\* HttpResponse::Ok().body("Hello, world!"): the body every handler returns on
\* success; response is the response struct the handler built and dropped.
HelloWorld == [text |-> "Hello, world!", fields |-> <<>>]

ErrorBody(text) == [text |-> text, fields |-> <<>>]

NoSig == <<>>

Reply(status, body, response, err) ==
    [status |-> status, body |-> body, response |-> response, err |-> err,
     invoked |-> FALSE, sig |-> NoSig, send |-> <<>>]

BadRequest(text, err) == Reply(400, ErrorBody(text), <<>>, err)

Panicked == Reply(0, ErrorBody("panic"), <<>>, "panic")

\* The reply to a field that failed to decode: an error, or the panic of a
\* slice out of range.
DecodeFailure(text, r) ==
    IF r.tag = "Panic" THEN Panicked ELSE BadRequest(text, r.err)

\* The reply to an element of a list that failed to decode: the closure's
\* error text names the step that failed.
ElementFailure(r) ==
    DecodeFailure(IF r.tag = "Err" /\ r.err = "Base64 decode error"
                  THEN "Base64 decode error" ELSE "Deserialization error", r)

-----------------------------------------------------------------------------
(* main.rs: the handlers, as functions of the request.                      *)

\* The result of parsing a request: the reply that ends the call, or the
\* parsed inputs.
Stop(reply) == [tag |-> "Stop", reply |-> reply]

\* aggregate_keys, lines 180-196: parse the public keys and the optional
\* key_for_coefficient.
KeysInputs(req) ==
    LET public_keys == Collect([i \in 1..Len(req.public_keys) |->
                                   PubkeyFromStr(req.public_keys[i])])
        key_for_coeff == IF req.key_for_coefficient = None THEN Ok(NoKey)
                         ELSE PubkeyFromStr(req.key_for_coefficient)
    IN  IF public_keys.tag = "Err"
        THEN Stop(BadRequest("Invalid public key", "Invalid public key"))
        ELSE IF key_for_coeff.tag = "Err"
        THEN Stop(BadRequest("Invalid coefficient key",
                             "Invalid coefficient key"))
        ELSE Ok([public_keys |-> public_keys.val,
                 key_for_coeff |-> key_for_coeff.val])

\* aggregate_keys, lines 198-207: call key_agg, map its error, encode the
\* aggregated key into the response.
KeysReply(public_keys, key_for_coeff) ==
    LET agg_key == key_agg(public_keys, key_for_coeff)
    IN  IF agg_key.tag = "Err"
        THEN [BadRequest("Key aggregation failed", agg_key.err)
                 EXCEPT !.invoked = TRUE]
        ELSE [Reply(200, HelloWorld,
                    <<PointToBytes(agg_key.val.agg_public_key)>>, "")
                 EXCEPT !.invoked = TRUE]

\* A handler that remembers: after a successful aggregation, a request
\* without key_for_coefficient takes its first key as the primary key.
aggregate_keys_remembering(req) ==
    LET in == KeysInputs(req)
    IN  IF in.tag = "Stop" THEN in.reply
        ELSE IF /\ in.val.key_for_coeff = NoKey
                /\ last.op = "aggregate_keys" /\ last.status = 200
        THEN KeysReply(in.val.public_keys, in.val.public_keys[1])
        ELSE KeysReply(in.val.public_keys, in.val.key_for_coeff)

\* A handler that takes the first key of the list as the primary key when
\* the request names none.
aggregate_keys_first_primary(req) ==
    LET in == KeysInputs(req)
    IN  IF in.tag = "Stop" THEN in.reply
        ELSE IF in.val.key_for_coeff = NoKey
        THEN KeysReply(in.val.public_keys, in.val.public_keys[1])
        ELSE KeysReply(in.val.public_keys, in.val.key_for_coeff)

\* A handler that leaves out the keys it cannot use and aggregates the rest.
aggregate_keys_lenient(req) ==
    LET usable == SelectSeq(req.public_keys,
                            LAMBDA name : name \notin {"bad", "offcurve"})
    IN  KeysReply([i \in 1..Len(usable) |-> PubkeyFromStr(usable[i]).val],
                  NoKey)

\* aggregate_keys
aggregate_keys(req) ==
    LET in == KeysInputs(req)
    IN  IF in.tag = "Stop" THEN in.reply
        ELSE KeysReply(in.val.public_keys, in.val.key_for_coeff)

\* agg_send_step1, with the nonces k1, k2 drawn by step_one.
agg_send_step1(req, k1, k2) ==
    LET keypair == ParseKeypair(req.private_key)
    IN  IF keypair.tag = "Err" THEN BadRequest(keypair.err, keypair.err)
        ELSE LET one == step_one(keypair.val, k1, k2)
                 msg1_bytes == SerializeAggMessage1(one.message1)
                 secret_bytes == SerializeSecretAggStepOne(one.secret_state)
                 response == <<base64_encode(msg1_bytes),
                               base64_encode(secret_bytes)>>
             IN  Reply(200, HelloWorld, response, "")

\* agg_send_step2, lines 234-272: parse the keys and parameters, decode the
\* first messages and the secret state.
Step2Inputs(l, req) ==
    LET keypair == ParseKeypair(req.private_key)
        public_keys == Collect([i \in 1..Len(req.public_keys) |->
                                   PubkeyFromStr(req.public_keys[i])])
        first_messages == Collect([i \in 1..Len(req.first_messages) |->
                    DecodeField("AggMessage1", l, req.first_messages[i])])
        secret_state == DecodeField("SecretAggStepOne", l, req.secret_state)
    IN  IF keypair.tag = "Err" THEN Stop(BadRequest(keypair.err, keypair.err))
        ELSE IF req.p.to = "bad"
        THEN Stop(BadRequest("Invalid destination address",
                             "Invalid destination address"))
        ELSE IF req.p.blockhash = "bad"
        THEN Stop(BadRequest("Invalid block hash", "Invalid block hash"))
        ELSE IF public_keys.tag = "Err"
        THEN Stop(BadRequest("Invalid public key", "Invalid public key"))
        ELSE IF first_messages.tag # "Ok"
        THEN Stop(ElementFailure(first_messages))
        ELSE IF secret_state.tag # "Ok"
        THEN Stop(DecodeFailure("Invalid secret state", secret_state))
        ELSE Ok([keypair |-> keypair.val, p |-> req.p,
                 public_keys |-> public_keys.val,
                 first_messages |-> first_messages.val,
                 secret_state |-> secret_state.val])

\* A handler that signs whatever step_two returned: an error becomes the
\* default (all-zero) signature.
Step2SignUnchecked(in) ==
    LET partial_sig == step_two(in.keypair, in.p, in.public_keys,
                                in.first_messages, in.secret_state)
        sig == IF partial_sig.tag = "Err" THEN Zeros(SigLen) ELSE partial_sig.val
    IN  [Reply(200, HelloWorld, <<base64_encode(sig)>>, "")
            EXCEPT !.invoked = TRUE, !.sig = sig]

\* A handler that hands step_two only as many first messages as there are
\* other keys, dropping the rest.
Step2SignTruncating(in) ==
    LET n == Len(in.public_keys) - 1
        kept == IF Len(in.first_messages) > n /\ n >= 0
                THEN SubSeq(in.first_messages, 1, n) ELSE in.first_messages
        partial_sig == step_two(in.keypair, in.p, in.public_keys, kept,
                                in.secret_state)
    IN  IF partial_sig.tag = "Err"
        THEN [BadRequest("Step 2 failed", partial_sig.err)
                 EXCEPT !.invoked = TRUE]
        ELSE [Reply(200, HelloWorld,
                    <<base64_encode(SerializePartialSignature(partial_sig.val))>>,
                    "")
                 EXCEPT !.invoked = TRUE, !.sig = partial_sig.val]

\* agg_send_step2, lines 274-292: call step_two, map its error, serialize the
\* partial signature into the response.
Step2Sign(in) ==
    LET partial_sig == step_two(in.keypair, in.p, in.public_keys,
                                in.first_messages, in.secret_state)
    IN  IF partial_sig.tag = "Err"
        THEN [BadRequest("Step 2 failed", partial_sig.err)
                 EXCEPT !.invoked = TRUE]
        ELSE LET sig_bytes == SerializePartialSignature(partial_sig.val)
             IN  [Reply(200, HelloWorld, <<base64_encode(sig_bytes)>>, "")
                     EXCEPT !.invoked = TRUE, !.sig = partial_sig.val]

\* A handler with a registry of consumed bundles: a secret bundle an earlier
\* Round 2 consumed is refused.
agg_send_step2_single_use(l, req) ==
    LET in == Step2Inputs(l, req)
    IN  IF in.tag = "Stop" THEN in.reply
        ELSE IF \E h \in round2 : h.bundle = in.val.secret_state
        THEN BadRequest("Secret state already used", "SecretStateReused")
        ELSE Step2Sign(in.val)

\* A handler with a session registry: a secret bundle no Round 1 generated is
\* refused.
agg_send_step2_session(l, req) ==
    LET in == Step2Inputs(l, req)
    IN  IF in.tag = "Stop" THEN in.reply
        ELSE IF ~\E r \in round1 :
                    step_one(r.signer, r.k[1], r.k[2]).secret_state
                        = in.val.secret_state
        THEN BadRequest("Unknown session", "UnknownSession")
        ELSE Step2Sign(in.val)

\* A handler with a table of open sessions: a signer who ran Round 1 and has
\* not yet used that bundle is refused Round 2 over any other bundle.
agg_send_step2_pending(l, req) ==
    LET in == Step2Inputs(l, req)
    IN  IF in.tag = "Stop" THEN in.reply
        ELSE IF \E r \in round1 :
                   LET b == step_one(r.signer, r.k[1], r.k[2]).secret_state
                   IN  /\ r.signer = in.val.keypair
                       /\ b # in.val.secret_state
                       /\ ~\E h \in round2 : h.bundle = b
        THEN BadRequest("Session pending", "SessionPending")
        ELSE Step2Sign(in.val)

\* agg_send_step2
agg_send_step2(l, req) ==
    LET in == Step2Inputs(l, req)
    IN  IF in.tag = "Stop" THEN in.reply ELSE Step2Sign(in.val)

\* aggregate_signatures_broadcast, lines 296-323: parse the parameters and
\* keys, decode the partial signatures.
CombineInputs(req) ==
    LET public_keys == Collect([i \in 1..Len(req.public_keys) |->
                                   PubkeyFromStr(req.public_keys[i])])
        partial_signatures == Collect([i \in 1..Len(req.partial_signatures) |->
                    DecodeField("PartialSignature", lib,
                                req.partial_signatures[i])])
    IN  IF req.p.to = "bad"
        THEN Stop(BadRequest("Invalid destination address",
                             "Invalid destination address"))
        ELSE IF req.p.blockhash = "bad"
        THEN Stop(BadRequest("Invalid block hash", "Invalid block hash"))
        ELSE IF public_keys.tag = "Err"
        THEN Stop(BadRequest("Invalid public key", "Invalid public key"))
        ELSE IF partial_signatures.tag # "Ok"
        THEN Stop(ElementFailure(partial_signatures))
        ELSE Ok([p |-> req.p, public_keys |-> public_keys.val,
                 partial_signatures |-> partial_signatures.val])

\* A sender that tries again when the RPC client reports a failure.
CombineSendRetry(transaction, rpc_ok) ==
    IF ~rpc_ok
    THEN [Reply(500, ErrorBody("Failed to send transaction"), <<>>,
                "Failed to send transaction")
             EXCEPT !.invoked = TRUE, !.send = <<transaction, transaction>>]
    ELSE [Reply(200, HelloWorld, transaction.signatures, "")
             EXCEPT !.invoked = TRUE, !.send = <<transaction>>,
                    !.sig = transaction.signatures[1]]

\* A sender that reports a failure of the RPC client as a failed aggregation.
CombineSendMasked(transaction, rpc_ok) ==
    IF ~rpc_ok
    THEN [Reply(400, ErrorBody("Aggregation failed"), <<>>, "InvalidSignature")
             EXCEPT !.invoked = TRUE, !.send = <<transaction>>]
    ELSE [Reply(200, HelloWorld, transaction.signatures, "")
             EXCEPT !.invoked = TRUE, !.send = <<transaction>>,
                    !.sig = transaction.signatures[1]]

\* aggregate_signatures_broadcast, lines 335-351: hand the transaction to the
\* RPC client (rpc_ok: it confirmed) and build the response.
CombineSend(transaction, rpc_ok) ==
    IF ~rpc_ok
    THEN [Reply(500, ErrorBody("Failed to send transaction"), <<>>,
                "Failed to send transaction")
             EXCEPT !.invoked = TRUE, !.send = <<transaction>>]
    ELSE [Reply(200, HelloWorld, transaction.signatures, "")
             EXCEPT !.invoked = TRUE, !.send = <<transaction>>,
                    !.sig = transaction.signatures[1]]

\* A handler that broadcasts before it looks at the combiner's verdict: when
\* the combiner fails, the transaction goes out with the first partial
\* signature attached.
aggregate_signatures_broadcast_unverified(req, rpc_ok) ==
    LET in == CombineInputs(req)
    IN  IF in.tag = "Stop" THEN in.reply
        ELSE LET transaction == sign_and_broadcast(in.val.p, in.val.public_keys,
                                                   in.val.partial_signatures)
                 agg == key_agg(in.val.public_keys, NoKey)
             IN  IF transaction.tag = "Ok" THEN CombineSend(transaction.val, rpc_ok)
                 ELSE IF agg.tag = "Err" \/ in.val.partial_signatures = <<>>
                 THEN [BadRequest("Aggregation failed", transaction.err)
                          EXCEPT !.invoked = TRUE]
                 ELSE CombineSend(
                        [TxMessage(in.val.p, agg.val.agg_public_key) EXCEPT
                            !.signatures = <<in.val.partial_signatures[1]>>],
                        rpc_ok)

\* A handler that hands the combiner only as many partial signatures as there
\* are keys, dropping the rest.
aggregate_signatures_broadcast_truncating(req, rpc_ok) ==
    LET in == CombineInputs(req)
    IN  IF in.tag = "Stop" THEN in.reply
        ELSE LET n == Len(in.val.public_keys)
                 kept == IF Len(in.val.partial_signatures) > n
                         THEN SubSeq(in.val.partial_signatures, 1, n)
                         ELSE in.val.partial_signatures
                 transaction == sign_and_broadcast(in.val.p, in.val.public_keys,
                                                   kept)
             IN  IF transaction.tag = "Err"
                 THEN [BadRequest("Aggregation failed", transaction.err)
                          EXCEPT !.invoked = TRUE]
                 ELSE CombineSend(transaction.val, rpc_ok)

\* aggregate_signatures_broadcast
aggregate_signatures_broadcast(req, rpc_ok) ==
    LET in == CombineInputs(req)
    IN  IF in.tag = "Stop" THEN in.reply
        ELSE LET transaction == sign_and_broadcast(in.val.p, in.val.public_keys,
                                                   in.val.partial_signatures)
             IN  IF transaction.tag = "Err"
                 THEN [BadRequest("Aggregation failed", transaction.err)
                          EXCEPT !.invoked = TRUE]
                 ELSE CombineSend(transaction.val, rpc_ok)

-----------------------------------------------------------------------------
(* The callers of the signing service: the requests they can send.          *)

\* Nonces the random source of step_one returns: 1..MaxNonce.
MaxNonce == 2
\* Round-1 calls recorded in a behaviour.
MaxRound1 == 2
\* Round-2 computations recorded in a behaviour.
MaxRound2 == 2
\* Transactions handed to the RPC client in a behaviour.
MaxSend == 1

\* A nonce value no Round-1 call returns (used by callers who forge bundles).
ForgedNonce == MaxNonce + 5

P1 == [amount |-> 15, to |-> "D", memo |-> None, blockhash |-> "B1"]

Step2Params == {P1, [P1 EXCEPT !.amount = 10]}

CombineParams ==
    Step2Params \cup {[P1 EXCEPT !.memo = "memo"], [P1 EXCEPT !.blockhash = "B2"],
                      [P1 EXCEPT !.to = "E"]}

KeysAB == <<"A", "B">>

\* The commitment and the bundle a recorded Round-1 call generated.
Issued(r) == step_one(r.signer, r.k[1], r.k[2])

\* A buffer laid out with the stride the decoders read: every point followed
\* by one more byte.
StridedAggMessage1(m) ==
    m.sender \o PointToBytes(m.R[1]) \o <<0>> \o PointToBytes(m.R[2]) \o <<0>>

StridedSecretAggStepOne(b) ==
    ScalarToBytes(b.k[1]) \o ScalarToBytes(b.k[2])
        \o PointToBytes(b.R[1]) \o <<0>> \o PointToBytes(b.R[2]) \o <<0>>

\* What a caller who never ran Round 1 can make up: a commitment in the
\* name of B and a secret bundle.
ForgedMessage == [sender |-> PubkeyOf("B"), R |-> <<ForgedNonce, ForgedNonce>>]

ForgedBundle ==
    [k |-> <<ForgedNonce, ForgedNonce>>, R |-> <<ForgedNonce, ForgedNonce>>]

\* What a caller can build from the Round-1 results: the bytes as returned,
\* or laid out again with the decoders' stride.
MessageFields ==
    {B64(SerializeAggMessage1(Issued(r).message1)) : r \in round1}
    \cup {B64(StridedAggMessage1(Issued(r).message1)) : r \in round1}
    \cup {BadB64}

SecretFields ==
    {B64(SerializeSecretAggStepOne(Issued(r).secret_state)) : r \in round1}
    \cup {B64(StridedSecretAggStepOne(Issued(r).secret_state)) : r \in round1}
    \cup {BadB64}

Step1Requests == [private_key : {"A", "B", "bad58", "badkeypair"}]

Step2Base ==
    [private_key |-> "A", p |-> P1, public_keys |-> KeysAB,
     first_messages |-> <<B64(StridedAggMessage1(ForgedMessage))>>,
     secret_state |-> B64(StridedSecretAggStepOne(ForgedBundle))]

Step2Requests ==
    [private_key : Signers, p : Step2Params, public_keys : {KeysAB},
     first_messages : {<<m>> : m \in MessageFields}, secret_state : SecretFields]
    \cup {[Step2Base EXCEPT !.private_key = k] :
             k \in {"A", "C", "bad58", "badkeypair"}}
    \cup {[Step2Base EXCEPT !.p.to = "bad"], [Step2Base EXCEPT !.p.blockhash = "bad"]}
    \cup {[Step2Base EXCEPT !.public_keys = ks] :
             ks \in {<<"A", "bad">>, <<"A", "offcurve">>, <<"A">>, <<"B", "C">>,
                     <<"A", "B", "C">>}}
    \cup {[Step2Base EXCEPT !.first_messages = ms] :
             ms \in {<<>>} \cup {<<m, m>> : m \in MessageFields}}
    \cup {[Step2Base EXCEPT !.public_keys = <<"A", "B", "C">>,
                            !.first_messages = <<Step2Base.first_messages[1],
                                                 Step2Base.first_messages[1]>>]}

\* Key lists and primary keys of the aggregate-keys requests.  (The empty
\* list is left out: what key_agg does with it is decided by code that is
\* not part of the sources.)
KeysRequests ==
    [public_keys : {<<"A", "B">>, <<"B", "A">>, <<"A", "B", "C">>,
                    <<"C", "A", "B">>, <<"A">>},
     key_for_coefficient : {None, "A"}]
    \cup [public_keys : {<<"A", "B">>},
          key_for_coefficient : {"bad", "offcurve"}]
    \cup [public_keys : {<<"A", "bad">>, <<"offcurve", "B">>},
          key_for_coefficient : {None}]

SignatureFields ==
    {B64(h.sig) : h \in round2}
    \cup {B64(SubSeq(h.sig, 1, SigLen - 1)) : h \in round2}
    \cup {BadB64}

CombineBase ==
    [p |-> P1, public_keys |-> KeysAB, partial_signatures |-> <<BadB64, BadB64>>]

CombineRequests ==
    [p : CombineParams, public_keys : {KeysAB},
     partial_signatures : {<<x, y>> : x \in SignatureFields, y \in SignatureFields}]
    \cup {[CombineBase EXCEPT !.p.to = "bad"], [CombineBase EXCEPT !.p.blockhash = "bad"]}
    \cup {[CombineBase EXCEPT !.public_keys = ks] :
             ks \in {<<"A", "bad">>, <<"A", "offcurve">>}}
    \cup {[CombineBase EXCEPT !.partial_signatures = ss] :
             ss \in {<<>>} \cup {<<x>> : x \in SignatureFields}
                    \cup {<<B64(h1.sig), B64(h2.sig), B64(h2.sig)>> :
                             h1 \in round2, h2 \in round2}}

-----------------------------------------------------------------------------
(* What an observer of a call records about it (history, not program state). *)

NoFacts ==
    [keysParsed |-> FALSE, keyInKeys |-> FALSE, accepts |-> FALSE,
     reused |-> FALSE, reusedOther |-> FALSE, issued |-> FALSE,
     honest |-> FALSE, inSession |-> FALSE, tampered |-> FALSE,
     commitments |-> "na", signatures |-> "na", cause |-> "none",
     req |-> <<>>, unparsable |-> FALSE, repeat |-> FALSE]

Observed(op, reply, facts) ==
    [op |-> op, status |-> reply.status, body |-> reply.body,
     response |-> reply.response, err |-> reply.err, invoked |-> reply.invoked,
     produced |-> reply.sig # NoSig, sent |-> reply.send # <<>>,
     attempts |-> Len(reply.send), facts |-> facts]

NoCall ==
    [op |-> "none", status |-> 0, body |-> ErrorBody(""), response |-> <<>>,
     err |-> "", invoked |-> FALSE, produced |-> FALSE, sent |-> FALSE,
     attempts |-> 0, facts |-> NoFacts]

\* An aggregate-keys call: its request, and whether one of its keys is not
\* the text of a curve point.
KeysFacts(req) ==
    [NoFacts EXCEPT
        !.req = req,
        !.unparsable =
            \/ \E i \in 1..Len(req.public_keys) :
                  req.public_keys[i] \in {"bad", "offcurve"}
            \/ req.key_for_coefficient \in {"bad", "offcurve"}]

\* The request's private key and public keys parse.
KeysParse(req) ==
    /\ ParseKeypair(req.private_key).tag = "Ok"
    /\ \A i \in 1..Len(req.public_keys) :
          PubkeyFromStr(req.public_keys[i]).tag = "Ok"

\* The public key of the request's private key is among its public keys.
KeyInKeys(req) ==
    \E i \in 1..Len(req.public_keys) : req.public_keys[i] = req.private_key

\* Every field of a Round-2 request parses and decodes.
Step2Decodes(l, req) ==
    /\ KeysParse(req)
    /\ req.p.to # "bad" /\ req.p.blockhash # "bad"
    /\ \A i \in 1..Len(req.first_messages) :
          DecodeField("AggMessage1", l, req.first_messages[i]).tag = "Ok"
    /\ DecodeField("SecretAggStepOne", l, req.secret_state).tag = "Ok"

\* The Round-2 engine accepts the decoded request.
Round2Accepts(l, req) ==
    /\ Step2Decodes(l, req)
    /\ step_two(req.private_key, req.p,
                [i \in 1..Len(req.public_keys) |->
                    PubkeyFromStr(req.public_keys[i]).val],
                [i \in 1..Len(req.first_messages) |->
                    DecodeField("AggMessage1", l, req.first_messages[i]).val],
                DecodeField("SecretAggStepOne", l, req.secret_state).val).tag = "Ok"

\* The request resubmits, verbatim, what Round 1 returned: the caller's own
\* secret bundle and the peer's commitment, for the two signers A and B.
HonestStep2(req) ==
    /\ req.public_keys = KeysAB
    /\ req.private_key \in {"A", "B"}
    /\ req.p \in TxParams
    /\ \E mine \in round1, peer \in round1 :
          /\ mine.signer = req.private_key
          /\ peer.signer # mine.signer /\ peer.signer \in {"A", "B"}
          /\ req.secret_state =
                base64_encode(SerializeSecretAggStepOne(Issued(mine).secret_state))
          /\ req.first_messages =
                <<base64_encode(SerializeAggMessage1(Issued(peer).message1))>>

\* How the first messages of a Round-2 request that decodes, from a signer
\* among the keys, compare with one commitment per other participant.
Commitments(l, req) ==
    LET n == Len(req.public_keys) - 1
        senders == [i \in 1..Len(req.first_messages) |->
                       DecodeField("AggMessage1", l,
                                   req.first_messages[i]).val.sender]
        peers == {PubkeyFromStr(req.public_keys[i]).val :
                     i \in 1..Len(req.public_keys)}
                 \ {PubkeyOf(req.private_key)}
    IN  IF ~(Step2Decodes(l, req) /\ KeyInKeys(req)) THEN "na"
        ELSE IF Len(senders) < n THEN "few"
        ELSE IF Len(senders) > n THEN "many"
        ELSE IF Cardinality(Range(senders)) < Len(senders) THEN "duplicated"
        ELSE IF Range(senders) # peers THEN "foreign"
        ELSE "ok"

Step2Facts(l, req) ==
    LET d == DecodeField("SecretAggStepOne", l, req.secret_state)
        ok == Step2Decodes(l, req)
    IN  [NoFacts EXCEPT
            !.keysParsed = KeysParse(req),
            !.keyInKeys = KeysParse(req) /\ KeyInKeys(req),
            !.accepts = Round2Accepts(l, req),
            !.reused = ok /\ \E h \in round2 : h.bundle = d.val,
            !.reusedOther = ok /\ \E h \in round2 :
                                h.bundle = d.val /\ h.p # req.p,
            !.issued = ok /\ \E r \in round1 : Issued(r).secret_state = d.val,
            !.honest = HonestStep2(req),
            !.commitments = Commitments(l, req),
            !.repeat = ok /\ \E h \in round2 :
                /\ h.signer = req.private_key
                /\ h.p = req.p
                /\ h.keys = req.public_keys
                /\ h.bundle = d.val
                /\ h.msgs = [i \in 1..Len(req.first_messages) |->
                                DecodeField("AggMessage1", l,
                                            req.first_messages[i]).val]]

\* Two recorded Round-2 computations of one honest session over keys: same
\* parameters, each signer's bundle consistent, each given the other's
\* commitment.
Consistent(b) == b.R = <<Mod(b.k[1]), Mod(b.k[2])>>

HonestPair(h1, h2, keys) ==
    /\ keys = <<h1.signer, h2.signer>>
    /\ h1.signer # h2.signer
    /\ h1.keys = keys /\ h2.keys = keys
    /\ h1.p = h2.p
    /\ Consistent(h1.bundle) /\ Consistent(h2.bundle)
    /\ h1.msgs = <<[sender |-> PubkeyOf(h2.signer), R |-> h2.bundle.R]>>
    /\ h2.msgs = <<[sender |-> PubkeyOf(h1.signer), R |-> h1.bundle.R]>>

\* The parameters of the honest sessions whose two partial signatures the
\* combine request carries, in key order.
SessionParams(req) ==
    {h1.p : h1 \in {h \in round2 :
        \E h2 \in round2 :
            /\ HonestPair(h, h2, req.public_keys)
            /\ req.partial_signatures =
                  <<base64_encode(h.sig), base64_encode(h2.sig)>>}}

\* How the partial signatures of a combine request that parses and decodes
\* compare with one partial signature per key.
Signatures(req) ==
    IF ~(/\ req.p.to # "bad" /\ req.p.blockhash # "bad"
         /\ \A i \in 1..Len(req.public_keys) :
               PubkeyFromStr(req.public_keys[i]).tag = "Ok"
         /\ \A i \in 1..Len(req.partial_signatures) :
               DecodeField("PartialSignature", lib,
                           req.partial_signatures[i]).tag = "Ok")
    THEN "na"
    ELSE IF Len(req.partial_signatures) < Len(req.public_keys) THEN "few"
    ELSE IF Len(req.partial_signatures) > Len(req.public_keys) THEN "many"
    ELSE "ok"

\* Why a combine call cannot succeed: the request is malformed ("encoding"),
\* the combined signature does not verify ("mismatch"), the RPC client
\* fails ("rpc"); "other" for the remaining combiner errors, "none" when
\* nothing stands in the way.
Cause(req, rpc_ok) ==
    LET keys == [i \in 1..Len(req.public_keys) |->
                    PubkeyFromStr(req.public_keys[i]).val]
        sigs == [i \in 1..Len(req.partial_signatures) |->
                    DecodeField("PartialSignature", lib,
                                req.partial_signatures[i]).val]
        r == sign_and_broadcast(req.p, keys, sigs)
    IN  IF Signatures(req) = "na" THEN "encoding"
        ELSE IF r.tag = "Err"
        THEN IF r.err = "InvalidSignature" THEN "mismatch" ELSE "other"
        ELSE IF ~rpc_ok THEN "rpc" ELSE "none"

CombineFacts(req) ==
    [NoFacts EXCEPT
        !.signatures = Signatures(req),
        !.inSession = req.p \in SessionParams(req),
        !.tampered = SessionParams(req) # {} /\ req.p \notin SessionParams(req)]

-----------------------------------------------------------------------------
(* The signing service: one action per handler.                             *)

\* The ledger tables and the pool at construction.
\* Concurrent calls (pool connections in use) in a behaviour.
MaxCalls == 2

Procs == 1..MaxCalls

NoRows == [k \in {} |-> 0]

\* A connection with no call in progress.
Idle ==
    [op |-> "none", pc |-> "idle", args |-> <<>>, local |-> <<>>,
     pending |-> <<>>, result |-> NoResult]

Init ==
    /\ lib \in LibChoices
    /\ CodecInit
    /\ last = NoCall
    /\ round1 = {}
    /\ round2 = {}
    /\ rpc = <<>>
    /\ users = {}
    /\ keyshares = {}
    /\ store_last = [op |-> "none", result |-> NoResult]
    /\ built = NoBuild
    /\ transactions = NoRows
    /\ balance = NoRows
    /\ token_balances = NoRows
    /\ calls = [p \in Procs |-> Idle]

AggSendStep1 ==
    /\ last.op = "none"
    /\ Cardinality(round1) < MaxRound1
    /\ \E req \in Step1Requests, k1 \in 1..MaxNonce, k2 \in 1..MaxNonce :
          LET reply == agg_send_step1(req, k1, k2)
          IN  /\ last' = Observed("agg_send_step1", reply, NoFacts)
              /\ round1' = IF reply.status = 200
                           THEN round1 \cup {[signer |-> req.private_key,
                                              k |-> <<k1, k2>>]}
                           ELSE round1
              /\ rpc' = rpc \o reply.send
    /\ UNCHANGED <<lib, built, codec, round2, storeVars>>

AggSendStep2 ==
    /\ last.op = "none"
    /\ Cardinality(round2) < MaxRound2
    /\ \E req \in Step2Requests :
          LET reply == agg_send_step2(lib, req)
          IN  /\ last' = Observed("agg_send_step2", reply, Step2Facts(lib, req))
              /\ round2' =
                    IF reply.sig # NoSig
                    THEN round2 \cup
                         {[signer |-> req.private_key, p |-> req.p,
                           keys |-> req.public_keys,
                           bundle |-> DecodeField("SecretAggStepOne", lib,
                                                  req.secret_state).val,
                           msgs |-> [i \in 1..Len(req.first_messages) |->
                                       DecodeField("AggMessage1", lib,
                                                   req.first_messages[i]).val],
                           sig |-> reply.sig]}
                    ELSE round2
              /\ rpc' = rpc \o reply.send
    /\ UNCHANGED <<lib, built, codec, round1, storeVars>>

AggregateSignaturesBroadcast ==
    /\ last.op = "none"
    /\ Len(rpc) < MaxSend
    /\ \E req \in CombineRequests, rpc_ok \in BOOLEAN :
          LET reply == aggregate_signatures_broadcast(req, rpc_ok)
          IN  /\ last' = Observed("aggregate_signatures_broadcast", reply,
                                  [CombineFacts(req) EXCEPT
                                      !.cause = Cause(req, rpc_ok)])
              /\ rpc' = rpc \o reply.send
    /\ UNCHANGED <<lib, built, codec, round1, round2, storeVars>>

\* Key aggregation has no part in a signing session: its calls may follow one
\* another directly.
AggregateKeys ==
    /\ last.op \in {"none", "aggregate_keys"}
    /\ \E req \in KeysRequests :
          LET reply == aggregate_keys(req)
          IN  /\ last' = Observed("aggregate_keys", reply, KeysFacts(req))
              /\ rpc' = rpc \o reply.send
    /\ UNCHANGED <<lib, built, codec, round1, round2, storeVars>>

\* The reply leaves the server; the worker takes the next request.
Respond ==
    /\ last.op # "none"
    /\ last' = NoCall
    /\ UNCHANGED <<lib, built, codec, round1, round2, rpc, storeVars>>

Next == AggSendStep1 \/ AggSendStep2 \/ AggregateSignaturesBroadcast \/ Respond

Spec == Init /\ [][Next]_vars

\* The operations that take part in no broadcast: key aggregation and the two
\* signing rounds.
SessionNext == AggregateKeys \/ AggSendStep1 \/ AggSendStep2 \/ Respond

SpecSession == Init /\ [][SessionNext]_vars

\* Round 2 over secret bundles the caller put together: the secret_state
\* field is text the caller sends, so next to the bundle Round 1 returned a
\* caller can send one whose public nonces belong to other private nonces.
MismatchedBundles ==
    {[k |-> Issued(r).secret_state.k,
      R |-> <<Mod(Issued(r).secret_state.R[1] + 1), Issued(r).secret_state.R[2]>>] :
        r \in round1}
    \cup {[k |-> <<1, 1>>, R |-> <<ForgedNonce, ForgedNonce>>]}

BundleFields ==
    {B64(StridedSecretAggStepOne(b)) :
        b \in MismatchedBundles \cup {Issued(r).secret_state : r \in round1}}
    \cup {B64(SerializeSecretAggStepOne(b)) : b \in MismatchedBundles}

BundleRequests ==
    [private_key : {"A", "B"}, p : {P1}, public_keys : {KeysAB},
     first_messages : {<<B64(StridedAggMessage1(ForgedMessage))>>},
     secret_state : BundleFields]

AggSendStep2Bundle ==
    /\ last.op = "none"
    /\ Cardinality(round2) < MaxRound2
    /\ \E req \in BundleRequests :
          LET reply == agg_send_step2(lib, req)
          IN  /\ last' = Observed("agg_send_step2", reply,
                                  [Step2Facts(lib, req) EXCEPT !.req = req])
              /\ round2' =
                    IF reply.sig # NoSig
                    THEN round2 \cup
                         {[signer |-> req.private_key, p |-> req.p,
                           keys |-> req.public_keys,
                           bundle |-> DecodeField("SecretAggStepOne", lib,
                                                  req.secret_state).val,
                           msgs |-> [i \in 1..Len(req.first_messages) |->
                                       DecodeField("AggMessage1", lib,
                                                   req.first_messages[i]).val],
                           sig |-> reply.sig]}
                    ELSE round2
              /\ rpc' = rpc \o reply.send
    /\ UNCHANGED <<lib, built, codec, round1, storeVars>>

BundleNext == AggSendStep1 \/ AggSendStep2Bundle \/ Respond

SpecBundle == Init /\ [][BundleNext]_vars

\* The transaction builder on its own.
BuilderNext == CreateUnsignedTransaction

SpecBuilder == Init /\ [][BuilderNext]_vars

-----------------------------------------------------------------------------
(* The codec on its own.                                                    *)

CodecNext == CodecSerialize \/ CodecDeserialize \/ CodecRoundTrip

SpecCodec == Init /\ [][CodecNext]_vars

-----------------------------------------------------------------------------
(* store/src/user.rs: users and MPC keyshares.                              *)

\* Rows of table mpc_keyshares in a behaviour.
MaxKeyshares == 2

\* create_keyshare: mpc_node_id < 1 || mpc_node_id > 5 is rejected.
MinNodeId == 1

MaxNodeId == 5

\* request.threshold.unwrap_or(2), request.total_shares.unwrap_or(3)
DefaultThreshold == 2

DefaultTotalShares == 3

\* email.len() < 5, password.len() < 8
MinEmailLen == 5

MinPasswordLen == 8

UserIds == {"u1", "u2"}

\* An email or a password as the facts the store looks at: its length and
\* whether it contains '@'.
Text(name, len, at) == [name |-> name, len |-> len, at |-> at]

Emails == {Text("a@x.io", 6, TRUE), Text("b@x.io", 6, TRUE), Text("a@b", 3, TRUE),
           Text("nobody", 6, FALSE)}

Passwords == {Text("correct horse", 13, FALSE), Text("short", 5, FALSE)}

NodeIds == (MinNodeId - 1)..(MaxNodeId + 1)

\* The private key shares the signers hold (the text of a private scalar).
PrivateKeyShares == {"share-of-A", "share-of-B"}

PublicKeyTexts == {"pub"}

\* Store::create_user
create_user(request) ==
    IF ~request.email.at \/ request.email.len < MinEmailLen
    THEN [result |-> Err("InvalidInput"), users |-> users]
    ELSE IF request.password.len < MinPasswordLen
    THEN [result |-> Err("InvalidInput"), users |-> users]
    ELSE IF \E u \in users : u.email = request.email.name
    THEN [result |-> Err("UserExists"), users |-> users]
    ELSE LET row == [id |-> request.id, email |-> request.email.name]
         IN  [result |-> Ok(row), users |-> users \cup {row}]

\* Store::create_keyshare
create_keyshare(request) ==
    IF request.mpc_node_id < MinNodeId \/ request.mpc_node_id > MaxNodeId
    THEN [result |-> Err("InvalidInput"), keyshares |-> keyshares]
    ELSE IF ~\E u \in users : u.id = request.user_id
    THEN [result |-> Err("UserNotFound"), keyshares |-> keyshares]
    ELSE IF \E k \in keyshares :
                k.user_id = request.user_id /\ k.mpc_node_id = request.mpc_node_id
    THEN [result |-> Err("KeyshareExists"), keyshares |-> keyshares]
    ELSE LET row == [user_id |-> request.user_id,
                     mpc_node_id |-> request.mpc_node_id,
                     private_key_share |-> request.private_key_share,
                     public_key |-> request.public_key,
                     threshold |-> DefaultThreshold,
                     total_shares |-> DefaultTotalShares]
         IN  [result |-> Ok(row), keyshares |-> keyshares \cup {row}]

\* Store::update_keyshare
update_keyshare(user_id, mpc_node_id, new_private_key_share) ==
    LET hit == {k \in keyshares :
                    k.user_id = user_id /\ k.mpc_node_id = mpc_node_id}
    IN  IF hit = {} THEN [result |-> Err("KeyshareNotFound"), keyshares |-> keyshares]
        ELSE [result |-> Ok("updated"),
              keyshares |-> (keyshares \ hit) \cup
                  {[k EXCEPT !.private_key_share = new_private_key_share] :
                      k \in hit}]

CreateUser ==
    /\ \E id \in UserIds, email \in Emails, password \in Passwords :
          /\ \A u \in users : u.id # id
          /\ LET r == create_user([id |-> id, email |-> email,
                                   password |-> password])
             IN  /\ users' = r.users
                 /\ balance' = [u \in {row.id : row \in r.users} |->
                                   IF u \in DOMAIN balance THEN balance[u] ELSE 0]
                 /\ store_last' = [op |-> "create_user", result |-> r.result]
    /\ UNCHANGED <<lib, built, codec, mpcVars, keyshares, transactions,
                   token_balances, calls>>

CreateKeyshare ==
    /\ Cardinality(keyshares) < MaxKeyshares
    /\ \E user_id \in UserIds, node \in NodeIds, share \in PrivateKeyShares,
          pub \in PublicKeyTexts :
          LET r == create_keyshare([user_id |-> user_id, mpc_node_id |-> node,
                                    private_key_share |-> share,
                                    public_key |-> pub])
          IN  /\ keyshares' = r.keyshares
              /\ store_last' = [op |-> "create_keyshare", result |-> r.result]
    /\ UNCHANGED <<lib, built, codec, mpcVars, users, ledgerVars>>

UpdateKeyshare ==
    /\ \E user_id \in UserIds, node \in NodeIds, share \in PrivateKeyShares :
          LET r == update_keyshare(user_id, node, share)
          IN  /\ keyshares' = r.keyshares
              /\ store_last' = [op |-> "update_keyshare", result |-> r.result]
    /\ UNCHANGED <<lib, built, codec, mpcVars, users, ledgerVars>>

\* Elements of a keyshare batch in a behaviour.
MaxBatch == 2

BatchNodeIds == {MinNodeId - 1, MinNodeId, MinNodeId + 1}

BatchElements ==
    [mpc_node_id : BatchNodeIds, private_key_share : {"share-of-A"},
     public_key : PublicKeyTexts]

Batches == UNION {[1..n -> BatchElements] : n \in 0..MaxBatch}

\* Store::create_user_keyshares_batch, lines 641-672: the loop over the
\* batch and the commit.  `created` are the rows inserted so far, on the
\* open transaction (onTx) or on the pool; `failing` is the place of the
\* INSERT the database fails, 0 when every INSERT succeeds.  A return from
\* inside the loop drops the transaction, which rolls it back.
RECURSIVE BatchLoop(_, _, _, _, _, _)
BatchLoop(user_id, batch, i, created, failing, onTx) ==
    LET persisted == IF onTx THEN keyshares ELSE keyshares \cup Range(created)
    IN  IF i > Len(batch)
        THEN [result |-> Ok(created), keyshares |-> keyshares \cup Range(created)]
        ELSE IF batch[i].mpc_node_id < MinNodeId \/ batch[i].mpc_node_id > MaxNodeId
        THEN [result |-> Err("InvalidInput"), keyshares |-> persisted]
        ELSE IF i = failing
        THEN [result |-> Err("Database"), keyshares |-> persisted]
        ELSE BatchLoop(user_id, batch, i + 1,
                       Append(created,
                              [user_id |-> user_id,
                               mpc_node_id |-> batch[i].mpc_node_id,
                               private_key_share |-> batch[i].private_key_share,
                               public_key |-> batch[i].public_key,
                               threshold |-> DefaultThreshold,
                               total_shares |-> DefaultTotalShares]),
                       failing, onTx)

create_user_keyshares_batch_on_pool(user_id, batch, failing) ==
    IF ~\E u \in users : u.id = user_id
    THEN [result |-> Err("UserNotFound"), keyshares |-> keyshares]
    ELSE BatchLoop(user_id, batch, 1, <<>>, failing, FALSE)

\* Store::create_user_keyshares_batch
create_user_keyshares_batch(user_id, batch, failing) ==
    IF ~\E u \in users : u.id = user_id
    THEN [result |-> Err("UserNotFound"), keyshares |-> keyshares]
    ELSE BatchLoop(user_id, batch, 1, <<>>, failing, TRUE)

CreateUserKeysharesBatch ==
    /\ Cardinality(keyshares) < MaxKeyshares
    /\ \E user_id \in UserIds, batch \in Batches, failing \in 0..MaxBatch :
          LET r == create_user_keyshares_batch(user_id, batch, failing)
          IN  /\ keyshares' = r.keyshares
              /\ store_last' = [op |-> "create_user_keyshares_batch",
                                result |-> r.result, user_id |-> user_id,
                                batch |-> batch, failing |-> failing]
    /\ UNCHANGED <<lib, built, codec, mpcVars, users, ledgerVars>>

StoreNext ==
    CreateUser \/ CreateKeyshare \/ UpdateKeyshare \/ CreateUserKeysharesBatch

SpecStore == Init /\ [][StoreNext]_vars

-----------------------------------------------------------------------------
(* store/src/transaction.rs and the balance operations of                   *)
(* store/src/user.rs: the ledger.                                           *)
(*                                                                          *)
(* Every handler is a sequence of SQL statements on a PostgreSQL pool of    *)
(* several connections, so that calls interleave statement by statement.    *)
(* A statement run on the pool commits at once; a statement run on an open  *)
(* transaction (`&mut *tx`) is buffered and takes effect at COMMIT, or      *)
(* never when the handler returns early and drops the transaction.  At the  *)
(* default isolation level (READ COMMITTED) a SELECT sees the committed     *)
(* rows and the transaction's own writes, and a write waits for the row     *)
(* lock of an uncommitted write of another transaction.  The schema         *)
(* (migrations) is not part of the sources: whether a CHECK constraint      *)
(* rejects a negative balance is left open, statement by statement.         *)
(* No operation of the store deletes a user or a transaction, and           *)
(* cleanup_zero_balances is left out, so that rows, once there, stay.       *)

\* Rows of table transactions in a behaviour.
MaxTransactions == 2

\* Largest balance a credit may reach in a behaviour.
MaxBalance == 2

\* Ids the database hands out on INSERT INTO transactions, in order.
TransactionIds == <<"t1", "t2", "t3">>

\* A user id with no row in users.
UnknownUser == "u3"

\* The users of the SOL balance and transaction calls.
AccountUsers == {"u1", UnknownUser}

\* An id with no row in transactions.
UnknownTransaction == "t0"

Mints == {"mint"}

TransactionTypes == {"Deposit", "Withdrawal", "Transfer"}

TransactionStatuses == {"Pending", "Confirmed", "Failed"}

LedgerAmounts == {0, 1, 2}

TxSignatures == {"sig1"}

\* What the ledger operations leave alone.
otherVars == <<lib, built, codec, mpcVars, users, keyshares, store_last>>

\* The committed database.
Db ==
    [transactions |-> transactions, balance |-> balance,
     token_balances |-> token_balances]

SetDb(db) ==
    /\ transactions' = db.transactions
    /\ balance' = db.balance
    /\ token_balances' = db.token_balances

\* The rows written by statements: a row of users, of token_balances, of
\* transactions.
UserRow(user_id) == <<"users", user_id>>

TokenRow(user_id, token_mint) == <<"token_balances", user_id, token_mint>>

TransactionRow(id) == <<"transactions", id>>

\* UPDATE users SET balance = balance + delta WHERE id = user_id
UpdateBalance(user_id, delta) ==
    [row |-> UserRow(user_id), kind |-> "balance", delta |-> delta]

\* UPDATE token_balances SET balance = balance + delta WHERE user_id = .. AND
\* token_mint = ..
UpdateToken(user_id, token_mint, delta) ==
    [row |-> TokenRow(user_id, token_mint), kind |-> "token", delta |-> delta]

\* INSERT INTO token_balances .. ON CONFLICT (user_id, token_mint) DO UPDATE
\* SET balance = token_balances.balance + EXCLUDED.balance
UpsertToken(user_id, token_mint, delta) ==
    [row |-> TokenRow(user_id, token_mint), kind |-> "upsert", delta |-> delta]

\* UPDATE transactions SET status = .., tx_signature = .. WHERE id = ..
UpdateStatus(id, status, tx_signature) ==
    [row |-> TransactionRow(id), kind |-> "status", status |-> status,
     tx_signature |-> tx_signature]

\* UPDATE transactions SET status = .. WHERE id = ..
UpdateStatusOnly(id, status) ==
    [row |-> TransactionRow(id), kind |-> "status_only", status |-> status]

\* The database after a write.  An UPDATE of a row that is not there
\* changes nothing.
ApplyWrite(db, w) ==
    CASE w.kind = "balance" ->
            IF w.row[2] \in DOMAIN db.balance
            THEN [db EXCEPT !.balance[w.row[2]] = @ + w.delta]
            ELSE db
      [] w.kind = "token" ->
            IF <<w.row[2], w.row[3]>> \in DOMAIN db.token_balances
            THEN [db EXCEPT !.token_balances[<<w.row[2], w.row[3]>>] = @ + w.delta]
            ELSE db
      [] w.kind = "upsert" ->
            LET key == <<w.row[2], w.row[3]>>
            IN  [db EXCEPT !.token_balances =
                    [k \in DOMAIN @ \cup {key} |->
                        IF k = key
                        THEN (IF key \in DOMAIN @ THEN @[key] ELSE 0) + w.delta
                        ELSE @[k]]]
      [] w.kind = "status" ->
            IF w.row[2] \in DOMAIN db.transactions
            THEN [db EXCEPT !.transactions[w.row[2]] =
                     [@ EXCEPT !.status = w.status,
                               !.tx_signature = w.tx_signature]]
            ELSE db
      [] w.kind = "status_only" ->
            IF w.row[2] \in DOMAIN db.transactions
            THEN [db EXCEPT !.transactions[w.row[2]] =
                     [@ EXCEPT !.status = w.status]]
            ELSE db

RECURSIVE ApplyAll(_, _)
ApplyAll(db, writes) ==
    IF writes = <<>> THEN db
    ELSE ApplyAll(ApplyWrite(db, Head(writes)), Tail(writes))

\* rows_affected() of a write.
RowsAffected(db, w) ==
    IF w.kind = "upsert" THEN 1
    ELSE IF w.kind = "balance" THEN (IF w.row[2] \in DOMAIN db.balance THEN 1 ELSE 0)
    ELSE IF w.kind = "token"
    THEN (IF <<w.row[2], w.row[3]>> \in DOMAIN db.token_balances THEN 1 ELSE 0)
    ELSE (IF w.row[2] \in DOMAIN db.transactions THEN 1 ELSE 0)

\* What the statements of call p's open transaction see: the committed rows
\* and its own writes.
View(p) == ApplyAll(Db, calls[p].pending)

\* Another call's open transaction holds the lock of the row.
Locked(p, row) ==
    \E q \in Procs \ {p} : \E i \in 1..Len(calls[q].pending) :
        calls[q].pending[i].row = row

\* The balance a write leaves in its row is negative.
LeavesNegative(db, w) ==
    /\ w.kind \in {"balance", "token", "upsert"}
    /\ RowsAffected(db, w) = 1
    /\ LET after == ApplyWrite(db, w)
       IN  IF w.kind = "balance" THEN after.balance[w.row[2]] < 0
           ELSE after.token_balances[<<w.row[2], w.row[3]>>] < 0

\* A handler returns: the call is over, and an open transaction that was
\* not committed is rolled back when it is dropped.
Return(call, result) ==
    [call EXCEPT !.pc = "done", !.result = result, !.pending = <<>>,
                 !.local = <<>>]

\* The connection takes a new call.
Free(p) == calls[p].pc \in {"idle", "done"}

Call(op, pc, args) ==
    [op |-> op, pc |-> pc, args |-> args, local |-> <<>>, pending |-> <<>>,
     result |-> NoResult]

\* A handler step that writes nothing.
Step(p, call) ==
    /\ calls' = [calls EXCEPT ![p] = call]
    /\ UNCHANGED <<dbVars, otherVars>>

Unit == [unit |-> TRUE]

InvalidInput(text) == Err([kind |-> "InvalidInput", text |-> text])

StoreError(kind) == Err([kind |-> kind, text |-> ""])

\* A write statement of call p, which goes on as `call`: on the open
\* transaction (onTx) the write is buffered, on the pool it is committed.
\* The statement waits for the row lock, and fails with a database error
\* when the schema rejects the balance it leaves.
Execute(p, onTx, w, call) ==
    /\ ~Locked(p, w.row)
    /\ UNCHANGED otherVars
    /\ \/ /\ onTx
          /\ calls' = [calls EXCEPT ![p] = [call EXCEPT !.pending = Append(@, w)]]
          /\ UNCHANGED dbVars
       \/ /\ ~onTx
          /\ calls' = [calls EXCEPT ![p] = call]
          /\ SetDb(ApplyWrite(Db, w))
       \/ /\ LeavesNegative(View(p), w)
          /\ calls' = [calls EXCEPT ![p] = Return(call, StoreError("Database"))]
          /\ UNCHANGED dbVars

\* tx.commit(): the buffered writes take effect together.
Commit(p, result) ==
    /\ calls' = [calls EXCEPT ![p] = Return(@, result)]
    /\ SetDb(ApplyAll(Db, calls[p].pending))
    /\ UNCHANGED otherVars


\* The balance a credit reaches stays within the bound of the behaviour.
WithinBound(user_id, token_mint, amount) ==
    IF token_mint = None
    THEN user_id \in DOMAIN balance => balance[user_id] + amount <= MaxBalance
    ELSE <<user_id, token_mint>> \in DOMAIN token_balances =>
             token_balances[<<user_id, token_mint>>] + amount <= MaxBalance

create_transaction_amount_first(db, user_id, transaction_type, amount, token_mint) ==
    IF amount <= 0
    THEN [result |-> InvalidInput("Amount must be positive"), db |-> db]
    ELSE IF ~\E u \in users : u.id = user_id
    THEN [result |-> StoreError("UserNotFound"), db |-> db]
    ELSE LET id == TransactionIds[Cardinality(DOMAIN db.transactions) + 1]
             row == [id |-> id, user_id |-> user_id, tx_signature |-> None,
                     transaction_type |-> transaction_type,
                     status |-> "Pending", amount |-> amount,
                     token_mint |-> token_mint]
         IN  [result |-> Ok(row),
              db |-> [db EXCEPT !.transactions =
                         [k \in DOMAIN @ \cup {id} |->
                             IF k = id THEN row ELSE @[k]]]]

\* Store::create_transaction (addresses and fee left out).  Its two
\* statements run on the pool; no operation removes the user between them.
create_transaction(db, user_id, transaction_type, amount, token_mint) ==
    IF ~\E u \in users : u.id = user_id
    THEN [result |-> StoreError("UserNotFound"), db |-> db]
    ELSE IF amount <= 0
    THEN [result |-> InvalidInput("Amount must be positive"), db |-> db]
    ELSE LET id == TransactionIds[Cardinality(DOMAIN db.transactions) + 1]
             row == [id |-> id, user_id |-> user_id, tx_signature |-> None,
                     transaction_type |-> transaction_type,
                     status |-> "Pending", amount |-> amount,
                     token_mint |-> token_mint]
         IN  [result |-> Ok(row),
              db |-> [db EXCEPT !.transactions =
                         [k \in DOMAIN @ \cup {id} |->
                             IF k = id THEN row ELSE @[k]]]]

CreateTransaction(p) ==
    /\ Free(p)
    /\ Cardinality(DOMAIN transactions) < MaxTransactions
    /\ \E user_id \in AccountUsers,
          transaction_type \in TransactionTypes, amount \in LedgerAmounts,
          token_mint \in {None} \cup Mints :
          LET args == [user_id |-> user_id,
                       transaction_type |-> transaction_type,
                       amount |-> amount, token_mint |-> token_mint]
              r == create_transaction(Db, user_id, transaction_type, amount,
                                      token_mint)
          IN  /\ calls' = [calls EXCEPT ![p] =
                     Return(Call("create_transaction", "insert", args), r.result)]
              /\ SetDb(r.db)
    /\ UNCHANGED otherVars

\* rows_affected() == 0: "Transaction not found".
Updated(db, w) ==
    IF RowsAffected(db, w) = 0 THEN InvalidInput("Transaction not found")
    ELSE Ok(Unit)

\* Store::update_transaction_status: one statement on the pool.
UpdateTransactionStatus(p) ==
    /\ Free(p)
    /\ \E transaction_id \in DOMAIN transactions \cup {UnknownTransaction},
          status \in TransactionStatuses,
          tx_signature \in {None} \cup TxSignatures :
          LET args == [transaction_id |-> transaction_id, status |-> status,
                       tx_signature |-> tx_signature]
              w == UpdateStatus(transaction_id, status, tx_signature)
          IN  Execute(p, FALSE, w,
                      Return(Call("update_transaction_status", "update", args),
                             Updated(Db, w)))

\* Store::fail_transaction: one statement on the pool.
FailTransaction(p) ==
    /\ Free(p)
    /\ \E transaction_id \in DOMAIN transactions \cup {UnknownTransaction} :
          LET args == [transaction_id |-> transaction_id]
              w == UpdateStatusOnly(transaction_id, "Failed")
          IN  Execute(p, FALSE, w,
                      Return(Call("fail_transaction", "update", args),
                             Updated(Db, w)))

SelectAnyStatus(db, transaction_id) ==
    IF transaction_id \in DOMAIN db.transactions
    THEN Ok(db.transactions[transaction_id])
    ELSE InvalidInput("Pending transaction not found")

\* SELECT .. FROM transactions WHERE id = $1 AND status = 'pending'
SelectPending(db, transaction_id) ==
    IF /\ transaction_id \in DOMAIN db.transactions
       /\ db.transactions[transaction_id].status = "Pending"
    THEN Ok(db.transactions[transaction_id])
    ELSE InvalidInput("Pending transaction not found")

\* Store::process_deposit, lines 335-355: begin, select the pending
\* transaction, verify its type.
ProcessDepositSelect(p) ==
    /\ Free(p)
    /\ \E transaction_id \in DOMAIN transactions \cup {UnknownTransaction},
          tx_signature \in TxSignatures :
          LET args == [transaction_id |-> transaction_id,
                       tx_signature |-> tx_signature]
              call == Call("process_deposit", "credit", args)
              transaction == SelectPending(Db, transaction_id)
          IN  IF transaction.tag = "Err"
              THEN Step(p, Return(call, transaction))
              ELSE IF transaction.val.transaction_type # "Deposit"
              THEN Step(p, Return(call,
                               InvalidInput("Transaction is not a deposit")))
              ELSE /\ WithinBound(transaction.val.user_id,
                                  transaction.val.token_mint,
                                  transaction.val.amount)
                   /\ Step(p, [call EXCEPT !.local = transaction.val])

\* lines 357-386: credit the token balance or the SOL balance.
DepositCredit(p, onTx) ==
    /\ calls[p].op = "process_deposit" /\ calls[p].pc = "credit"
    /\ LET transaction == calls[p].local
           w == IF transaction.token_mint # None
                THEN UpsertToken(transaction.user_id, transaction.token_mint,
                                 transaction.amount)
                ELSE UpdateBalance(transaction.user_id, transaction.amount)
       IN  Execute(p, onTx, w, [calls[p] EXCEPT !.pc = "confirm"])

ProcessDepositCreditOnPool(p) == DepositCredit(p, FALSE)

ProcessDepositCredit(p) == DepositCredit(p, TRUE)

\* lines 388-397: mark the transaction confirmed.
ProcessDepositConfirm(p) ==
    /\ calls[p].op = "process_deposit" /\ calls[p].pc = "confirm"
    /\ Execute(p, TRUE,
               UpdateStatus(calls[p].args.transaction_id, "Confirmed",
                            calls[p].args.tx_signature),
               [calls[p] EXCEPT !.pc = "commit"])

\* lines 399-400
ProcessDepositCommit(p) ==
    /\ calls[p].op = "process_deposit" /\ calls[p].pc = "commit"
    /\ Commit(p, Ok(Unit))

ProcessDeposit(p) ==
    \/ ProcessDepositSelect(p)
    \/ ProcessDepositCredit(p)
    \/ ProcessDepositConfirm(p)
    \/ ProcessDepositCommit(p)

\* SELECT balance FROM users WHERE id = $1
SelectBalance(db, user_id) ==
    IF user_id \in DOMAIN db.balance THEN Ok(db.balance[user_id])
    ELSE StoreError("UserNotFound")

\* SELECT balance FROM token_balances WHERE user_id = $1 AND token_mint = $2,
\* 0 when there is no record.
SelectTokenBalance(db, user_id, token_mint) ==
    IF <<user_id, token_mint>> \in DOMAIN db.token_balances
    THEN db.token_balances[<<user_id, token_mint>>]
    ELSE 0

\* Store::process_withdrawal, lines 410-430: begin, select the pending
\* transaction, verify its type.
ProcessWithdrawalSelect(p) ==
    /\ Free(p)
    /\ \E transaction_id \in DOMAIN transactions \cup {UnknownTransaction},
          tx_signature \in TxSignatures :
          LET args == [transaction_id |-> transaction_id,
                       tx_signature |-> tx_signature]
              call == Call("process_withdrawal", "check", args)
              transaction == SelectPending(Db, transaction_id)
          IN  IF transaction.tag = "Err"
              THEN Step(p, Return(call, transaction))
              ELSE IF transaction.val.transaction_type # "Withdrawal"
              THEN Step(p, Return(call,
                               InvalidInput("Transaction is not a withdrawal")))
              ELSE Step(p, [call EXCEPT !.local = transaction.val])

ProcessWithdrawalUnchecked(p) ==
    /\ calls[p].op = "process_withdrawal" /\ calls[p].pc = "check"
    /\ Step(p, [calls[p] EXCEPT !.pc = "debit"])

\* lines 435-446 and 459-468: read the current balance and compare it with
\* the amount.
ProcessWithdrawalCheck(p) ==
    /\ calls[p].op = "process_withdrawal" /\ calls[p].pc = "check"
    /\ LET transaction == calls[p].local
           current_balance ==
               IF transaction.token_mint # None
               THEN SelectTokenBalance(View(p), transaction.user_id,
                                       transaction.token_mint)
               ELSE SelectBalance(View(p), transaction.user_id).val
       IN  IF current_balance < transaction.amount
           THEN Step(p, Return(calls[p], StoreError("InsufficientBalance")))
           ELSE Step(p, [calls[p] EXCEPT !.pc = "debit"])

\* lines 448-456 and 470-477: debit the token balance or the SOL balance.
WithdrawalDebit(p, onTx) ==
    /\ calls[p].op = "process_withdrawal" /\ calls[p].pc = "debit"
    /\ LET transaction == calls[p].local
           w == IF transaction.token_mint # None
                THEN UpdateToken(transaction.user_id, transaction.token_mint,
                                 -transaction.amount)
                ELSE UpdateBalance(transaction.user_id, -transaction.amount)
       IN  Execute(p, onTx, w, [calls[p] EXCEPT !.pc = "confirm"])

ProcessWithdrawalDebit(p) == WithdrawalDebit(p, TRUE)

\* lines 480-489: mark the transaction confirmed.
ProcessWithdrawalConfirm(p) ==
    /\ calls[p].op = "process_withdrawal" /\ calls[p].pc = "confirm"
    /\ Execute(p, TRUE,
               UpdateStatus(calls[p].args.transaction_id, "Confirmed",
                            calls[p].args.tx_signature),
               [calls[p] EXCEPT !.pc = "commit"])

\* lines 491-492
ProcessWithdrawalCommit(p) ==
    /\ calls[p].op = "process_withdrawal" /\ calls[p].pc = "commit"
    /\ Commit(p, Ok(Unit))

ProcessWithdrawal(p) ==
    \/ ProcessWithdrawalSelect(p)
    \/ ProcessWithdrawalCheck(p)
    \/ ProcessWithdrawalDebit(p)
    \/ ProcessWithdrawalConfirm(p)
    \/ ProcessWithdrawalCommit(p)

\* Store::add_user_balance: one statement on the pool.
AddUserBalance(p) ==
    /\ Free(p)
    /\ \E user_id \in AccountUsers, amount \in LedgerAmounts :
          LET args == [user_id |-> user_id, amount |-> amount]
              call == Call("add_user_balance", "update", args)
              w == UpdateBalance(user_id, amount)
          IN  IF amount <= 0
              THEN Step(p, Return(call, InvalidInput("Amount must be positive")))
              ELSE IF RowsAffected(Db, w) = 0
              THEN Step(p, Return(call, StoreError("UserNotFound")))
              ELSE /\ WithinBound(user_id, None, amount)
                   /\ Execute(p, FALSE, w,
                              Return(call, Ok([balance |->
                                  ApplyWrite(Db, w).balance[user_id]])))

\* Store::subtract_user_balance, lines 346-356: validate the amount, read
\* the balance with get_user_balance and compare.
SubtractUserBalanceCheck(p) ==
    /\ Free(p)
    /\ \E user_id \in AccountUsers, amount \in LedgerAmounts :
          LET args == [user_id |-> user_id, amount |-> amount]
              call == Call("subtract_user_balance", "update", args)
              current_balance == SelectBalance(Db, user_id)
          IN  IF amount <= 0
              THEN Step(p, Return(call, InvalidInput("Amount must be positive")))
              ELSE IF current_balance.tag = "Err"
              THEN Step(p, Return(call, current_balance))
              ELSE IF current_balance.val < amount
              THEN Step(p, Return(call, StoreError("InsufficientBalance")))
              ELSE Step(p, [call EXCEPT !.local =
                                [current_balance |-> current_balance.val]])

\* lines 358-368: the UPDATE, on the pool.
SubtractUserBalanceUpdate(p) ==
    /\ calls[p].op = "subtract_user_balance" /\ calls[p].pc = "update"
    /\ LET w == UpdateBalance(calls[p].args.user_id, -calls[p].args.amount)
       IN  Execute(p, FALSE, w,
                   Return(calls[p], Ok([balance |->
                       ApplyWrite(Db, w).balance[calls[p].args.user_id]])))

SubtractUserBalance(p) ==
    \/ SubtractUserBalanceCheck(p)
    \/ SubtractUserBalanceUpdate(p)

\* Balances a caller sets with update_token_balance.
TokenAmounts == {1, 2}

\* Amounts a caller subtracts or transfers.
TokenDebits == {0, 1}

\* INSERT INTO token_balances .. ON CONFLICT (user_id, token_mint) DO UPDATE
\* SET balance = EXCLUDED.balance
SetToken(user_id, token_mint, new_balance) ==
    [row |-> TokenRow(user_id, token_mint), kind |-> "upsert",
     delta |-> new_balance - SelectTokenBalance(Db, user_id, token_mint)]

\* Store::update_token_balance: the user is looked up, then one statement
\* on the pool creates the record or overwrites its balance.
UpdateTokenBalance(p) ==
    /\ Free(p)
    /\ \E user_id \in UserIds \cup {UnknownUser}, token_mint \in Mints,
          new_balance \in TokenAmounts :
          LET args == [user_id |-> user_id, token_mint |-> token_mint,
                       balance |-> new_balance]
              call == Call("update_token_balance", "upsert", args)
          IN  IF ~\E u \in users : u.id = user_id
              THEN Step(p, Return(call, StoreError("UserNotFound")))
              ELSE Execute(p, FALSE, SetToken(user_id, token_mint, new_balance),
                           Return(call, Ok([balance |-> new_balance])))

\* Store::subtract_token_balance, lines 804-814: validate the amount, read
\* the balance with get_token_balance and compare.
SubtractTokenBalanceCheck(p) ==
    /\ Free(p)
    /\ \E user_id \in UserIds, token_mint \in Mints, amount \in TokenDebits :
          LET args == [user_id |-> user_id, token_mint |-> token_mint,
                       amount |-> amount]
              call == Call("subtract_token_balance", "update", args)
              current_balance == SelectTokenBalance(Db, user_id, token_mint)
          IN  IF amount <= 0
              THEN Step(p, Return(call, InvalidInput("Amount must be positive")))
              ELSE IF current_balance < amount
              THEN Step(p, Return(call, StoreError("InsufficientBalance")))
              ELSE Step(p, [call EXCEPT !.local =
                                [current_balance |-> current_balance]])

\* lines 816-831: the UPDATE, on the pool.
SubtractTokenBalanceUpdate(p) ==
    /\ calls[p].op = "subtract_token_balance" /\ calls[p].pc = "update"
    /\ LET args == calls[p].args
           w == UpdateToken(args.user_id, args.token_mint, -args.amount)
       IN  IF RowsAffected(Db, w) = 0
           THEN Step(p, Return(calls[p],
                            InvalidInput("Token balance record not found")))
           ELSE Execute(p, FALSE, w,
                        Return(calls[p], Ok([balance |->
                            SelectTokenBalance(ApplyWrite(Db, w), args.user_id,
                                               args.token_mint)])))

SubtractTokenBalance(p) ==
    \/ SubtractTokenBalanceCheck(p)
    \/ SubtractTokenBalanceUpdate(p)

\* Store::transfer_tokens, lines 864-885: validate the amount, begin, read
\* the sender's balance and compare.
TransferTokensCheck(p) ==
    /\ Free(p)
    /\ \E from_user_id \in UserIds, to_user_id \in UserIds,
          token_mint \in Mints, amount \in TokenDebits :
          LET args == [from_user_id |-> from_user_id,
                       to_user_id |-> to_user_id, token_mint |-> token_mint,
                       amount |-> amount]
              call == Call("transfer_tokens", "debit", args)
              sender_balance == SelectTokenBalance(Db, from_user_id, token_mint)
          IN  IF amount <= 0
              THEN Step(p, Return(call,
                               InvalidInput("Transfer amount must be positive")))
              ELSE IF sender_balance < amount
              THEN Step(p, Return(call, StoreError("InsufficientBalance")))
              ELSE /\ WithinBound(to_user_id, token_mint, amount)
                   /\ Step(p, [call EXCEPT !.local =
                                   [current_balance |-> sender_balance]])

\* lines 887-898: subtract from the sender.
TransferDebit(p, onTx) ==
    /\ calls[p].op = "transfer_tokens" /\ calls[p].pc = "debit"
    /\ LET args == calls[p].args
           w == UpdateToken(args.from_user_id, args.token_mint, -args.amount)
       IN  IF RowsAffected(View(p), w) = 0
           THEN Step(p, Return(calls[p], StoreError("Database")))
           ELSE Execute(p, onTx, w,
                        [calls[p] EXCEPT !.pc = "credit", !.local =
                            [new_sender_balance |->
                                SelectTokenBalance(ApplyWrite(View(p), w),
                                    args.from_user_id, args.token_mint)]])

TransferTokensDebitOnPool(p) == TransferDebit(p, FALSE)

TransferTokensDebit(p) == TransferDebit(p, TRUE)

\* lines 900-917: add to the receiver, creating the record if absent.
TransferTokensCredit(p) ==
    /\ calls[p].op = "transfer_tokens" /\ calls[p].pc = "credit"
    /\ LET args == calls[p].args
           w == UpsertToken(args.to_user_id, args.token_mint, args.amount)
       IN  Execute(p, TRUE, w,
                   [calls[p] EXCEPT !.pc = "commit", !.local =
                       [new_sender_balance |-> @.new_sender_balance,
                        new_receiver_balance |->
                            SelectTokenBalance(ApplyWrite(View(p), w),
                                args.to_user_id, args.token_mint)]])

\* lines 919-920
TransferTokensCommit(p) ==
    /\ calls[p].op = "transfer_tokens" /\ calls[p].pc = "commit"
    /\ Commit(p, Ok([sender |-> calls[p].local.new_sender_balance,
                     receiver |-> calls[p].local.new_receiver_balance]))

TransferTokens(p) ==
    \/ TransferTokensCheck(p)
    \/ TransferTokensDebit(p)
    \/ TransferTokensCredit(p)
    \/ TransferTokensCommit(p)

\* The users registered before the ledger is used: the rows create_user
\* inserts.
Registered ==
    {[id |-> "u1", email |-> "a@x.io"], [id |-> "u2", email |-> "b@x.io"]}

\* The ledger of a store whose users are registered: no transaction, every
\* balance zero, no call in progress.
LedgerInit ==
    /\ lib = "reject"
    /\ CodecInit
    /\ last = NoCall
    /\ round1 = {}
    /\ round2 = {}
    /\ rpc = <<>>
    /\ users = Registered
    /\ keyshares = {}
    /\ store_last = [op |-> "none", result |-> NoResult]
    /\ built = NoBuild
    /\ transactions = NoRows
    /\ balance = [u \in {r.id : r \in Registered} |-> 0]
    /\ token_balances = NoRows
    /\ calls = [p \in Procs |-> Idle]

\* Transactions in a behaviour of concurrent calls.
MaxRaced == 1

\* Deposits: transactions are created and processed, on every connection.
DepositNext ==
    \E p \in Procs :
        \/ Cardinality(DOMAIN transactions) < MaxRaced /\ CreateTransaction(p)
        \/ ProcessDeposit(p)

SpecDeposit == LedgerInit /\ [][DepositNext]_vars

\* Debits of the SOL balance on every connection, and what precedes them
\* on the first.
DebitNext ==
    \/ Cardinality(DOMAIN transactions) < MaxRaced /\ CreateTransaction(1)
    \/ AddUserBalance(1)
    \/ \E p \in Procs : SubtractUserBalance(p) \/ ProcessWithdrawal(p)

SpecDebit == LedgerInit /\ [][DebitNext]_vars

\* Token balances: debits and transfers on every connection, the balances
\* set on the first.
TokenNext ==
    \/ UpdateTokenBalance(1)
    \/ \E p \in Procs : SubtractTokenBalance(p) \/ TransferTokens(p)

SpecToken == LedgerInit /\ [][TokenNext]_vars

\* The life of a transaction, one call at a time.
LifecycleNext ==
    \E p \in {1} :
        \/ CreateTransaction(p)
        \/ UpdateTransactionStatus(p)
        \/ FailTransaction(p)
        \/ ProcessDeposit(p)
        \/ ProcessWithdrawal(p)

SpecLifecycle == LedgerInit /\ [][LifecycleNext]_vars

-----------------------------------------------------------------------------
(* Claims about the codec (checked under SpecCodec).                        *)

\* C1: for every protocol message type and every valid message m,
\* deserialize(serialize(m)) succeeds and equals m, and serialize produces a
\* buffer of exactly the length the decoder's field slices need.
C1_RoundTrip ==
    codec.op = "roundtrip" =>
        /\ codec.res = Ok(codec.msg)
        /\ Len(codec.buf) = NeededLen(codec.kind)

\* C2: deserialize returns BufferTooShort for every buffer shorter than the
\* bytes its field slices read, and no buffer that passes the length guard
\* leads to a slice read past the end of the buffer.
C2_ShortBufferRejected ==
    codec.op \in {"deserialize", "roundtrip"} =>
        /\ Len(codec.buf) < NeededLen(codec.kind)
              => codec.res = Err("BufferTooShort")
        /\ Len(codec.buf) >= GuardLen(codec.kind) => codec.res.tag # "Panic"

\* C15: for every buffer that passes the length guard, decoding never panics,
\* and a point or scalar field that the curve library rejects makes
\* deserialize return InvalidPoint or InvalidScalar (never a message).
C15_RejectionPropagated ==
    codec.op = "deserialize" /\ Len(codec.buf) >= GuardLen(codec.kind)
        => /\ codec.res.tag # "Panic"
           /\ (\E f \in ReadFields(codec.kind) :
                  /\ SliceInRange(codec.buf, f.to)
                  /\ IF f.type = "point"
                     THEN PointFromBytes(lib, Slice(codec.buf, f.from,
                                                    f.to)).tag = "Err"
                     ELSE ScalarFromBytes(Slice(codec.buf, f.from,
                                                f.to)).tag = "Err")
                 => /\ codec.res.tag = "Err"
                    /\ codec.res.err \in {"InvalidPoint", "InvalidScalar"}

-----------------------------------------------------------------------------
(* Claims about the signing service (checked under Spec).                   *)

\* C3 (as stated): a secret bundle is consumed by at most one Round 2: a
\* Round-2 call that presents a bundle an earlier Round 2 already consumed
\* produces no partial signature.
C3_SingleUse ==
    last.op = "agg_send_step2" /\ last.facts.reused => ~last.produced

\* C3 (amended): the service keeps no record of consumed bundles: a Round-2
\* call that presents a bundle an earlier Round 2 consumed, and that the
\* Round-2 validations accept, produces a partial signature like any other,
\* also when the transaction parameters differ from the earlier call's.
C3_ReuseIsTheCallersObligation ==
    last.op = "agg_send_step2" /\ last.facts.reused /\ last.facts.accepts
        => last.produced /\ last.status = 200

C3_Witness ==
    /\ last.op = "agg_send_step2"
    /\ last.facts.reusedOther
    /\ last.produced

\* C4 (as stated): Round 2 is only performed from a secret bundle that a
\* Round-1 call generated: a call that produces a partial signature presents
\* a bundle some Round 1 returned.
C4_Round1First ==
    last.op = "agg_send_step2" /\ last.produced => last.facts.issued

\* C4 (amended): the order Round 1, Round 2 is the caller's to keep: the
\* service has no session state, and Round 2 computes a partial signature
\* from any secret bundle that decodes and that its validations accept,
\* one that no Round-1 call generated included.
C4_OrderIsTheCallersObligation ==
    last.op = "agg_send_step2" /\ ~last.facts.issued /\ last.facts.accepts
        => last.produced /\ last.status = 200

C4_Witness ==
    /\ last.op = "agg_send_step2"
    /\ ~last.facts.issued
    /\ last.produced

\* C5: a successful call returns its response fields to the caller: Round 1
\* returns the commitment (first message) and the secret bundle it generated.
C5_ResponseReturned ==
    last.op = "agg_send_step1" /\ last.status = 200
        => /\ Len(last.response) = 2
           /\ last.body.fields = last.response

\* C6: two honest participants who each ran Round 1 and then run Round 2 with
\* what Round 1 returned, over the same transaction parameters, obtain their
\* partial signatures (which then combine into a valid signature).
C6_HonestRound2Signs ==
    last.op = "agg_send_step2" /\ last.facts.honest
        => last.produced /\ last.status = 200

C8_BroadcastOnlyVerified ==
    /\ \A i \in 1..Len(rpc) :
          LET K == PointFromBytes("reject", rpc[i].payer)
          IN  /\ K.tag = "Ok"
              /\ Len(rpc[i].signatures) = 1
              /\ VerifySignature(K.val, rpc[i], rpc[i].signatures[1])
    /\ last.op = "aggregate_signatures_broadcast" /\ last.sent
          => last.invoked /\ last.status \in {200, 500}
    /\ last.op = "aggregate_signatures_broadcast"
          /\ (last.status = 400 \/ last.err = "panic") => ~last.sent

C8_Witness ==
    /\ Len(rpc) > 0
    /\ last.op = "aggregate_signatures_broadcast"
    /\ last.sent
    /\ last.status = 200

\* C11: Round 2 produces a partial signature only when the first messages
\* are exactly one commitment per other participant; with too few, too many,
\* duplicated or foreign commitments the engine fails with MismatchMessages
\* and no partial signature is produced.
C11_MismatchMessages ==
    /\ last.op = "agg_send_step2"
          /\ last.facts.commitments \in {"few", "many", "duplicated", "foreign"}
          => /\ ~last.produced
             /\ last.status = 400
             /\ last.invoked
             /\ last.err = "MismatchMessages"
    /\ last.op = "agg_send_step2" /\ last.produced
          => last.facts.commitments = "ok"

C11_Witness ==
    /\ last.op = "agg_send_step2"
    /\ last.facts.commitments = "duplicated"
    /\ last.err = "MismatchMessages"

\* C12: the combiner returns a signed transaction only when given exactly
\* one partial signature per key: with a missing or an extra partial signature
\* the call fails with an error and nothing is broadcast.
C12_OneSignaturePerKey ==
    /\ last.op = "aggregate_signatures_broadcast"
          /\ last.facts.signatures \in {"few", "many"}
          => /\ last.status = 400
             /\ last.invoked
             /\ last.err # ""
             /\ ~last.sent
    /\ last.op = "aggregate_signatures_broadcast" /\ last.sent
          => last.facts.signatures = "ok"

C12_Witness ==
    /\ last.op = "aggregate_signatures_broadcast"
    /\ last.facts.signatures = "many"
    /\ last.err = "MismatchMessages"
    /\ ~last.sent

\* C13: a combine-and-broadcast call hands its transaction to the RPC client
\* at most once: when the client reports a failure the call answers 500
\* with that failure, after the one attempt and without sending again.
C13_OneBroadcastAttempt ==
    last.op = "aggregate_signatures_broadcast"
        => /\ last.attempts <= 1
           /\ last.status = 500
                 => last.attempts = 1 /\ last.err = "Failed to send transaction"
           /\ Len(rpc) >= last.attempts

C13_Witness ==
    /\ last.op = "aggregate_signatures_broadcast"
    /\ last.status = 500
    /\ last.attempts = 1
    /\ Len(rpc) = 1

\* C14: the caller can tell the failures of combine-and-broadcast apart: a
\* malformed request, a signature that does not verify and a failure of the
\* RPC client are answered with different status and error text; exactly the
\* RPC failures are answered 500 "Failed to send transaction", and exactly
\* the verification failures 400 "Aggregation failed" with InvalidSignature.
C14_FailuresDistinguishable ==
    last.op = "aggregate_signatures_broadcast"
        => /\ last.facts.cause = "rpc"
                 <=> /\ last.status = 500
                     /\ last.body.text = "Failed to send transaction"
           /\ last.facts.cause = "mismatch"
                 <=> /\ last.status = 400
                     /\ last.body.text = "Aggregation failed"
                     /\ last.err = "InvalidSignature"
           /\ last.facts.cause = "encoding"
                 <=> /\ last.status = 400
                     /\ last.body.text \in {"Invalid destination address",
                                            "Invalid block hash",
                                            "Invalid public key",
                                            "Base64 decode error",
                                            "Deserialization error"}
           /\ last.facts.cause = "none" <=> last.status = 200

C14_Witness ==
    /\ last.op = "aggregate_signatures_broadcast"
    /\ last.facts.cause = "rpc"
    /\ last.status = 500

\* C10: Round 2 fails when the public key of the caller's private key is not
\* among the request's public keys: no partial signature is produced, and
\* the error of the Round-2 engine is KeyPairIsNotInKeys.
C10_KeyPairIsNotInKeys ==
    last.op = "agg_send_step2" /\ last.facts.keysParsed /\ ~last.facts.keyInKeys
        => /\ ~last.produced
           /\ last.status # 200
           /\ last.invoked => last.err = "KeyPairIsNotInKeys"

C10_Witness ==
    /\ last.op = "agg_send_step2"
    /\ last.facts.keysParsed /\ ~last.facts.keyInKeys
    /\ last.invoked
    /\ last.err = "KeyPairIsNotInKeys"

-----------------------------------------------------------------------------
(* Claims about the transaction builder (checked under SpecBuilder).        *)

\* C19: the builder emits exactly one instruction, the transfer, when there
\* is no memo, and exactly two, the transfer followed by the memo, when there
\* is one; the fee payer is the source; two calls that differ only in how
\* the absence of the memo is written (field left out, null) build the same
\* transaction, and equal arguments build equal transactions.
C19_MemoOnlyWhenPresent ==
    /\ [](built.op = "built" =>
            LET tx == built.tx
                transfer == [program |-> "system", from |-> built.from,
                             to |-> built.to,
                             lamports |-> IF built.amount < 0 THEN 0
                                          ELSE built.amount * LamportsPerTenth]
            IN  /\ tx.payer = built.from
                /\ tx.instructions[1] = transfer
                /\ built.memo \in {"absent", "null"}
                      => tx.instructions = <<transfer>>
                /\ built.memo \notin {"absent", "null"}
                      => tx.instructions =
                            <<transfer, [program |-> "memo", data |-> built.memo]>>)
    /\ [][/\ built.op = "built" /\ built'.op = "built"
          /\ built'.amount = built.amount /\ built'.to = built.to
          /\ built'.from = built.from
          /\ \/ built'.memo = built.memo
             \/ {built.memo, built'.memo} = {"absent", "null"}
          => built'.tx = built.tx]_vars

C19_Witness ==
    /\ built.op = "built"
    /\ built.memo = "null"
    /\ Len(built.tx.instructions) = 1

-----------------------------------------------------------------------------
(* Claims about key aggregation and session state (checked under            *)
(* SpecSession).                                                            *)

C17_AggregateOrderIndependent ==
    [][last.op = "aggregate_keys" /\ last'.op = "aggregate_keys"
          /\ Len(last'.facts.req.public_keys) = Len(last.facts.req.public_keys)
          /\ Range(last'.facts.req.public_keys) = Range(last.facts.req.public_keys)
          /\ last'.facts.req.key_for_coefficient
                = last.facts.req.key_for_coefficient
          => /\ last'.status = last.status
             /\ last'.response = last.response]_vars

C17_Witness ==
    /\ last.op = "aggregate_keys"
    /\ last.status = 200
    /\ last.facts.req.public_keys = <<"C", "A", "B">>
    /\ last.response # <<>>

-----------------------------------------------------------------------------
(* Claims about the store (checked under SpecStore).                        *)

\* C9: no private key share is persisted by the store: no stored keyshare
\* record holds the private key share a caller submitted.
C9_NoPrivateKeyShareStored ==
    \A k \in keyshares : k.private_key_share \notin PrivateKeyShares

-----------------------------------------------------------------------------
(* Claims about the ledger.                                                 *)

\* Call p takes a step of handler op.
StepOf(p, op) == calls'[p] # calls[p] /\ calls'[p].op = op

\* Call p returns from handler op in this step.
Returns(p, op) == StepOf(p, op) /\ calls'[p].pc = "done"

\* The amounts of the confirmed deposits of a user in a mint (None: SOL),
\* over the first n transaction ids.
RECURSIVE ConfirmedDeposits(_, _, _)
ConfirmedDeposits(user_id, token_mint, n) ==
    IF n = 0 THEN 0
    ELSE ConfirmedDeposits(user_id, token_mint, n - 1) +
         (IF /\ TransactionIds[n] \in DOMAIN transactions
             /\ transactions[TransactionIds[n]].user_id = user_id
             /\ transactions[TransactionIds[n]].token_mint = token_mint
             /\ transactions[TransactionIds[n]].transaction_type = "Deposit"
             /\ transactions[TransactionIds[n]].status = "Confirmed"
          THEN transactions[TransactionIds[n]].amount ELSE 0)

\* The balance of a user in a mint (None: SOL) in the tables db.
BalanceIn(db, user_id, token_mint) ==
    IF token_mint = None THEN db.balance[user_id]
    ELSE SelectTokenBalance(db, user_id, token_mint)

\* The committed balance of a user in a mint.
Balance(user_id, token_mint) == BalanceIn(Db, user_id, token_mint)

\* The committed tables after the credit of a transaction's amount.
Credited(t) ==
    ApplyWrite(Db, IF t.token_mint # None
                   THEN UpsertToken(t.user_id, t.token_mint, t.amount)
                   ELSE UpdateBalance(t.user_id, t.amount))

\* C21: process_deposit is atomic.  Where only deposits credit, a balance is
\* credited exactly when a deposit of its user is confirmed (never while
\* every deposit is still pending, and never less than the confirmed
\* deposits), and every step of a process_deposit call either leaves the
\* committed tables alone or applies the credit and the change to Confirmed,
\* with the given signature, together.
C21_DepositAtomic ==
    /\ [](\A u \in DOMAIN balance : \A m \in {None} \cup Mints :
            /\ Balance(u, m) >= ConfirmedDeposits(u, m, Len(TransactionIds))
            /\ Balance(u, m) > 0 =>
                   ConfirmedDeposits(u, m, Len(TransactionIds)) > 0)
    /\ [][\A p \in Procs : StepOf(p, "process_deposit") =>
            \/ UNCHANGED dbVars
            \/ LET id == calls'[p].args.transaction_id
                   after == Credited(transactions[id])
               IN  /\ balance' = after.balance
                   /\ token_balances' = after.token_balances
                   /\ transactions' = [transactions EXCEPT
                          ![id].status = "Confirmed",
                          ![id].tx_signature = calls'[p].args.tx_signature]]_vars

\* A process_deposit call has committed: the transaction is confirmed and
\* its amount is in the balance.
C21_Witness ==
    \E p \in Procs :
        /\ calls[p].op = "process_deposit" /\ calls[p].result.tag = "Ok"
        /\ LET t == transactions[calls[p].args.transaction_id]
           IN  /\ t.status = "Confirmed"
               /\ t.tx_signature = calls[p].args.tx_signature
               /\ Balance(t.user_id, t.token_mint) >= t.amount

\* C22: each deposit transaction credits its user's balance at most once,
\* under every interleaving of process_deposit calls: no balance exceeds the
\* amounts of the confirmed deposits of its user.
C22_CreditedOnce ==
    \A u \in DOMAIN balance : \A m \in {None} \cup Mints :
        Balance(u, m) <= ConfirmedDeposits(u, m, Len(TransactionIds))

\* C23: a user's SOL balance never becomes negative through debits: after
\* any interleaving of subtract_user_balance and process_withdrawal calls
\* the balance is still >= 0.
C23_BalanceNeverNegative ==
    \A u \in DOMAIN balance : balance[u] >= 0

\* The sum of the balances of a mint over the users in S.
RECURSIVE TokenTotal(_, _, _)
TokenTotal(table, token_mint, S) ==
    IF S = {} THEN 0
    ELSE LET u == CHOOSE x \in S : TRUE
         IN  (IF <<u, token_mint>> \in DOMAIN table
              THEN table[<<u, token_mint>>] ELSE 0)
             + TokenTotal(table, token_mint, S \ {u})

\* C24: transfer_tokens conserves the total.  The step in which a transfer
\* returns Ok lowers the sender's balance by the amount and raises the
\* receiver's by the amount, creating the receiver's record if absent, and
\* leaves the sum of the mint's balances unchanged, also when sender and
\* receiver are the same user; every other step of a transfer, a failing
\* return included, changes no balance.
C24_TransferConserves ==
    [][\A p \in Procs : StepOf(p, "transfer_tokens") =>
          LET args == calls'[p].args
              after == ApplyAll(Db,
                  <<UpdateToken(args.from_user_id, args.token_mint, -args.amount),
                    UpsertToken(args.to_user_id, args.token_mint, args.amount)>>)
          IN  IF calls'[p].pc = "done" /\ calls'[p].result.tag = "Ok"
              THEN /\ token_balances' = after.token_balances
                   /\ <<args.to_user_id, args.token_mint>> \in DOMAIN token_balances'
                   /\ TokenTotal(token_balances', args.token_mint, UserIds) =
                          TokenTotal(token_balances, args.token_mint, UserIds)
                   /\ UNCHANGED <<balance, transactions>>
              ELSE UNCHANGED dbVars]_vars

\* A transfer between two users has succeeded and a transfer has failed.
C24_Witness ==
    \E p \in Procs, q \in Procs :
        /\ calls[p].op = "transfer_tokens" /\ calls[p].result.tag = "Ok"
        /\ calls[p].args.from_user_id # calls[p].args.to_user_id
        /\ calls[q].op = "transfer_tokens" /\ calls[q].result.tag = "Err"

\* C25: no token balance becomes negative under concurrency: after any
\* interleaving of transfer_tokens and subtract_token_balance calls that
\* debit the same (user, mint) record, that balance is still >= 0.
C25_TokenBalanceNeverNegative ==
    \A k \in DOMAIN token_balances : token_balances[k] >= 0

\* The committed tables after the debit of a transaction's amount.
Debited(t) ==
    ApplyWrite(Db, IF t.token_mint # None
                   THEN UpdateToken(t.user_id, t.token_mint, -t.amount)
                   ELSE UpdateBalance(t.user_id, -t.amount))

\* C26: process_withdrawal.  When the balance it reads is smaller than the
\* transaction's amount, and only then, the check returns
\* InsufficientBalance; a call that returns an error, or has not returned
\* yet, leaves the balances, the token balances and the transaction's status
\* and signature as they were; the step in which a call returns Ok lowers
\* the balance by exactly the amount and makes the transaction Confirmed
\* with the given signature.
C26_WithdrawalChecked ==
    [][\A p \in Procs : StepOf(p, "process_withdrawal") =>
          /\ (calls[p].op = "process_withdrawal" /\ calls[p].pc = "check") =>
                 ((Balance(calls[p].local.user_id, calls[p].local.token_mint)
                      < calls[p].local.amount)
                  <=> (/\ calls'[p].pc = "done"
                       /\ calls'[p].result = StoreError("InsufficientBalance")))
          /\ IF calls'[p].pc = "done" /\ calls'[p].result.tag = "Ok"
             THEN LET id == calls'[p].args.transaction_id
                      t == transactions[id]
                      after == Debited(t)
                  IN  /\ balance' = after.balance
                      /\ token_balances' = after.token_balances
                      /\ BalanceIn([balance |-> balance',
                                    token_balances |-> token_balances'],
                                   t.user_id, t.token_mint) =
                             Balance(t.user_id, t.token_mint) - t.amount
                      /\ transactions' = [transactions EXCEPT
                             ![id].status = "Confirmed",
                             ![id].tx_signature = calls'[p].args.tx_signature]
             ELSE UNCHANGED dbVars]_vars

\* A withdrawal was refused for its balance and its transaction is still
\* pending, after another withdrawal was confirmed.
C26_Witness ==
    \E p \in Procs :
        /\ calls[p].op = "process_withdrawal"
        /\ calls[p].result = StoreError("InsufficientBalance")
        /\ transactions[calls[p].args.transaction_id].status = "Pending"
        /\ \E id \in DOMAIN transactions :
              /\ transactions[id].transaction_type = "Withdrawal"
              /\ transactions[id].status = "Confirmed"

\* C27: the status of a transaction goes from Pending to Confirmed or to
\* Failed and stays there: every transaction is created Pending, and no
\* store operation changes the status of a transaction that is Confirmed
\* or Failed.
C27_TerminalStatuses ==
    [][\A id \in DOMAIN transactions' :
          IF id \in DOMAIN transactions
          THEN transactions[id].status \in {"Confirmed", "Failed"} =>
                   transactions'[id].status = transactions[id].status
          ELSE transactions'[id].status = "Pending"]_vars

\* The transaction type a handler processes.
Processes(op) == IF op = "process_deposit" THEN "Deposit" ELSE "Withdrawal"

\* C28: process_deposit and process_withdrawal act only on a Pending
\* transaction of the matching type.  Called on a transaction that is
\* missing, not Pending or of another type, the call returns InvalidInput
\* at once, with no balance and no transaction record changed; called on a
\* Pending transaction of its type, it goes on.
C28_OnlyPendingOfMatchingType ==
    [][\A p \in Procs : \A op \in {"process_deposit", "process_withdrawal"} :
          (Free(p) /\ StepOf(p, op)) =>
              LET id == calls'[p].args.transaction_id
                  acts == /\ id \in DOMAIN transactions
                          /\ transactions[id].status = "Pending"
                          /\ transactions[id].transaction_type = Processes(op)
              IN  /\ UNCHANGED dbVars
                  /\ IF acts THEN calls'[p].pc # "done"
                     ELSE /\ calls'[p].pc = "done"
                          /\ calls'[p].result.tag = "Err"
                          /\ calls'[p].result.err.kind = "InvalidInput"]_vars

\* process_deposit was called on a pending transaction that is not a
\* deposit, and refused it.
C28_Witness ==
    \E p \in Procs :
        /\ calls[p].op = "process_deposit"
        /\ calls[p].result = InvalidInput("Transaction is not a deposit")
        /\ transactions[calls[p].args.transaction_id].transaction_type
               \in {"Withdrawal", "Transfer"}
        /\ transactions[calls[p].args.transaction_id].status = "Pending"

\* The user of a create_transaction call has a row in users.
KnownUser(args) == \E u \in users : u.id = args.user_id

\* A create_transaction call inserted its record: one new row, Pending,
\* with the call's user, type, amount and mint, and the rows that were
\* there unchanged.
Inserted(p) ==
    LET args == calls'[p].args
        row == calls'[p].result.val
    IN  /\ calls'[p].result.tag = "Ok"
        /\ row.id \notin DOMAIN transactions
        /\ DOMAIN transactions' = DOMAIN transactions \cup {row.id}
        /\ transactions'[row.id] = row
        /\ row.status = "Pending" /\ row.tx_signature = None
        /\ row.user_id = args.user_id /\ row.amount = args.amount
        /\ row.transaction_type = args.transaction_type
        /\ row.token_mint = args.token_mint
        /\ \A id \in DOMAIN transactions : transactions'[id] = transactions[id]

\* C29 as stated: create_transaction inserts a record, with status Pending,
\* only for an existing user and a strictly positive amount; for an unknown
\* user it returns UserNotFound and for amount <= 0 it returns InvalidInput,
\* in both cases leaving the set of transactions unchanged.
C29_CreateTransactionValidates ==
    [][\A p \in Procs : Returns(p, "create_transaction") =>
          LET args == calls'[p].args
          IN  /\ UNCHANGED <<balance, token_balances>>
              /\ (KnownUser(args) /\ args.amount > 0) => Inserted(p)
              /\ ~KnownUser(args) =>
                     /\ calls'[p].result = StoreError("UserNotFound")
                     /\ transactions' = transactions
              /\ args.amount <= 0 =>
                     /\ calls'[p].result = InvalidInput("Amount must be positive")
                     /\ transactions' = transactions]_vars

\* C29, amended: the user is looked up before the amount is validated, so
\* that an unknown user gets UserNotFound whatever the amount, and InvalidInput
\* is what an existing user gets for amount <= 0.
C29_UserBeforeAmount ==
    [][\A p \in Procs : Returns(p, "create_transaction") =>
          LET args == calls'[p].args
          IN  /\ UNCHANGED <<balance, token_balances>>
              /\ (KnownUser(args) /\ args.amount > 0) => Inserted(p)
              /\ ~KnownUser(args) =>
                     /\ calls'[p].result = StoreError("UserNotFound")
                     /\ transactions' = transactions
              /\ (KnownUser(args) /\ args.amount <= 0) =>
                     /\ calls'[p].result = InvalidInput("Amount must be positive")
                     /\ transactions' = transactions]_vars

\* create_transaction was called for an unknown user with an amount that is
\* not positive, and returned UserNotFound.
C29_Witness ==
    \E p \in Procs :
        /\ calls[p].op = "create_transaction"
        /\ ~KnownUser(calls[p].args) /\ calls[p].args.amount <= 0
        /\ calls[p].result = StoreError("UserNotFound")

-----------------------------------------------------------------------------
(* Claims about the keyshare batch (checked under SpecStore).               *)

\* The keyshare rows of a batch for a user.
BatchRows(user_id, batch) ==
    {[user_id |-> user_id,
      mpc_node_id |-> batch[i].mpc_node_id,
      private_key_share |-> batch[i].private_key_share,
      public_key |-> batch[i].public_key,
      threshold |-> DefaultThreshold,
      total_shares |-> DefaultTotalShares] : i \in 1..Len(batch)}

\* C30: create_user_keyshares_batch is all-or-nothing: a call that returns
\* an error (an element with a node id outside 1..5, a failing insert, an
\* unknown user) leaves the stored keyshares as they were, also when
\* earlier elements of the batch had been inserted; a call that returns Ok
\* has stored every element of the batch.
C30_BatchAllOrNothing ==
    [][store_last'.op = "create_user_keyshares_batch" =>
          IF store_last'.result.tag = "Err"
          THEN keyshares' = keyshares
          ELSE keyshares' =
                   keyshares \cup BatchRows(store_last'.user_id, store_last'.batch)]_vars

\* A batch call for an existing user failed at its second element, after
\* the first element had been inserted.
C30_Witness ==
    /\ store_last.op = "create_user_keyshares_batch"
    /\ store_last.result.tag = "Err"
    /\ store_last.result.err \in {"InvalidInput", "Database"}
    /\ Len(store_last.batch) = 2
    /\ store_last.batch[1].mpc_node_id \in MinNodeId..MaxNodeId
    /\ store_last.failing # 1


-----------------------------------------------------------------------------
(* Claims about the stored keyshares (checked under SpecStore).             *)

\* Rows of mpc_keyshares are a set of records without the serial id: two
\* rows with the same user, node, share and public key are one element, so
\* the duplicates the model shows are the ones that differ in their share.
KeyshareNodeInRange ==
    \A k \in keyshares : k.mpc_node_id \in MinNodeId..MaxNodeId

KeyshareUserExists ==
    \A k \in keyshares : \E u \in users : u.id = k.user_id

KeysharePairsUnique ==
    \A k1, k2 \in keyshares :
        (k1.user_id = k2.user_id /\ k1.mpc_node_id = k2.mpc_node_id) => k1 = k2

\* C31: every stored keyshare has a node id in 1..5 and belongs to an
\* existing user, and no two stored keyshares have the same
\* (user_id, mpc_node_id).
C31_KeysharesWellFormed ==
    KeyshareNodeInRange /\ KeyshareUserExists /\ KeysharePairsUnique


-----------------------------------------------------------------------------
(* Claims about the secret bundle of Round 2 (checked under SpecBundle).    *)

\* The bundle the last Round-2 request carried, as the handler decoded it.
LastBundle == DecodeField("SecretAggStepOne", lib, last.facts.req.secret_state)

\* C32: every secret bundle that SecretAggStepOne::deserialize accepted and
\* agg_send_step2 handed to step_two is consistent (its public nonces are
\* the public points of its private nonces), and no partial signature is
\* computed over a bundle that is not.
C32_BundleConsistent ==
    /\ (last.op = "agg_send_step2" /\ last.invoked) => Consistent(LastBundle.val)
    /\ \A h \in round2 : Consistent(h.bundle)

=============================================================================
